---- MODULE Spec2Model ----
(***************************************************************************)
(* A model of coin-trade-sdk: the query canonicalizer, the construction of *)
(* the four exchange facades (Binance, Bithumb, OKX, Upbit), their         *)
(* endpoint registries, their signed calls, their read operations with the *)
(* response normalizers, and the symbol translation.                       *)
(*                                                                         *)
(* Program strings are sequences of byte values, so that the ordering of  *)
(* BTreeMap keys, string concatenation and splitting are computed as the   *)
(* code computes them.  Keyed hashes and encodings are free constructors   *)
(* (records naming the algorithm, the key and the message).                *)
(***************************************************************************)
EXTENDS Integers, Sequences, FiniteSets, TLC

VARIABLES
    mapA, mapB, canonOut,      \* canonicalizer: two maps under construction, the last pair of outputs
    facade, newResult, lookup, \* construction: the facade built per provider, the last results of new and of a lookup
    now, uuids,                \* the system clock (ms) and the count of UUIDs drawn so far
    inflight, done, started,   \* calls awaiting the HTTP sender, the last finished call, calls started
    nonceLog,                  \* the nonce of every token handed to the HTTP sender, in order
    symLog,                    \* symbol translation: the calls of parse_symbol and encode_symbol made, in order
    sigLog                     \* signing: the calls of Binance get_signature made, in order

vars == <<mapA, mapB, canonOut, facade, newResult, lookup, now, uuids, inflight, done, started, nonceLog, symLog, sigLog>>

canonVars == <<mapA, mapB, canonOut>>
newVars == <<facade, newResult, lookup>>
callVars == <<now, uuids, inflight, done, started, nonceLog>>
symVars == <<symLog, sigLog>>

-----------------------------------------------------------------------------
(* Bounds of the model *)

MaxEntries == 2     \* entries of a parameter map built in the canonicalizer specification
MaxCalls == 2       \* facade calls started in one behaviour
MaxInFlight == 2    \* calls awaiting the HTTP sender at the same time
MaxTime == 1        \* the clock advances by at most MaxTime milliseconds

-----------------------------------------------------------------------------
(* Strings: sequences of bytes *)

s_empty == <<>>                                                         \* ""
s_eq == <<61>>                                                          \* "="
s_amp == <<38>>                                                         \* "&"
s_qmark == <<63>>                                                       \* "?"
s_slash == <<47>>                                                       \* "/"
s_dash == <<45>>                                                        \* "-"

s_make_order == <<109, 97, 107, 101, 95, 111, 114, 100, 101, 114>>      \* "make_order"
s_cancel_order == <<99, 97, 110, 99, 101, 108, 95, 111, 114, 100, 101, 114>>   \* "cancel_order"
s_order_book == <<111, 114, 100, 101, 114, 95, 98, 111, 111, 107>>      \* "order_book"
s_current_price == <<99, 117, 114, 114, 101, 110, 116, 95, 112, 114, 105, 99, 101>>   \* "current_price"
s_coin_list == <<99, 111, 105, 110, 95, 108, 105, 115, 116>>            \* "coin_list"
s_non_existing == <<110, 111, 110, 95, 101, 120, 105, 115, 116, 105, 110, 103>>   \* "non_existing"

s_POST == <<80, 79, 83, 84>>                                            \* "POST"
s_DELETE == <<68, 69, 76, 69, 84, 69>>                                  \* "DELETE"
s_GET == <<71, 69, 84>>                                                 \* "GET"

s_signature == <<115, 105, 103, 110, 97, 116, 117, 114, 101>>           \* "signature"
s_symbol == <<115, 121, 109, 98, 111, 108>>                             \* "symbol"
s_side == <<115, 105, 100, 101>>                                        \* "side"
s_type == <<116, 121, 112, 101>>                                        \* "type"
s_price == <<112, 114, 105, 99, 101>>                                   \* "price"
s_quantity == <<113, 117, 97, 110, 116, 105, 116, 121>>                 \* "quantity"
s_timestamp == <<116, 105, 109, 101, 115, 116, 97, 109, 112>>           \* "timestamp"
s_newOrderRespType == <<110, 101, 119, 79, 114, 100, 101, 114, 82, 101, 115, 112, 84, 121, 112, 101>>   \* "newOrderRespType"
s_RESULT == <<82, 69, 83, 85, 76, 84>>                                  \* "RESULT"
s_orderId == <<111, 114, 100, 101, 114, 73, 100>>                       \* "orderId"
s_instId == <<105, 110, 115, 116, 73, 100>>                             \* "instId"
s_ordType == <<111, 114, 100, 84, 121, 112, 101>>                       \* "ordType"
s_px == <<112, 120>>                                                    \* "px"
s_sz == <<115, 122>>                                                    \* "sz"
s_tdMode == <<116, 100, 77, 111, 100, 101>>                             \* "tdMode"
s_cash == <<99, 97, 115, 104>>                                          \* "cash"
s_ordId == <<111, 114, 100, 73, 100>>                                   \* "ordId"
s_market == <<109, 97, 114, 107, 101, 116>>                             \* "market"
s_ord_type == <<111, 114, 100, 95, 116, 121, 112, 101>>                 \* "ord_type"
s_volume == <<118, 111, 108, 117, 109, 101>>                            \* "volume"
s_uuid == <<117, 117, 105, 100>>                                        \* "uuid"
s_access_key == <<97, 99, 99, 101, 115, 115, 95, 107, 101, 121>>        \* "access_key"
s_nonce == <<110, 111, 110, 99, 101>>                                   \* "nonce"
s_query_hash == <<113, 117, 101, 114, 121, 95, 104, 97, 115, 104>>      \* "query_hash"
s_query_hash_alg == <<113, 117, 101, 114, 121, 95, 104, 97, 115, 104, 95, 97, 108, 103>>   \* "query_hash_alg"
s_order_type == <<111, 114, 100, 101, 114, 95, 116, 121, 112, 101>>               \* "order_type"
s_amount == <<97, 109, 111, 117, 110, 116>>                                \* "amount"
s_order_id == <<111, 114, 100, 101, 114, 95, 105, 100>>                    \* "order_id"
s_SHA512 == <<83, 72, 65, 53, 49, 50>>                                  \* "SHA512"

StrLess(a, b) ==
    \* Ord for str: lexicographic comparison of the bytes
    \E i \in 1..(Len(a) + 1) :
        /\ i <= Len(b)
        /\ \A j \in 1..(i - 1) : a[j] = b[j]
        /\ (i > Len(a) \/ a[i] < b[i])

RECURSIVE Join(_, _)
Join(parts, sep) ==
    \* [String]::join
    IF Len(parts) = 0 THEN <<>>
    ELSE IF Len(parts) = 1 THEN parts[1]
    ELSE parts[1] \o sep \o Join(Tail(parts), sep)

-----------------------------------------------------------------------------
(* BTreeMap<&str, &str>: the entries <<key, value>> in ascending key order *)

BTreeNew == <<>>

BTreeHas(m, k) == \E i \in DOMAIN m : m[i][1] = k

BTreeGet(m, k) == m[CHOOSE i \in DOMAIN m : m[i][1] = k][2]

BTreeInsert(m, k, v) ==
    IF BTreeHas(m, k)
    THEN [i \in DOMAIN m |-> IF m[i][1] = k THEN <<k, v>> ELSE m[i]]
    ELSE LET n == Cardinality({i \in DOMAIN m : StrLess(m[i][1], k)})
         IN  SubSeq(m, 1, n) \o << <<k, v>> >> \o SubSeq(m, n + 1, Len(m))

RECURSIVE BTreeFrom(_)
BTreeFrom(pairs) ==
    \* BTreeMap::from([...]): a later entry replaces an earlier one with the same key
    IF Len(pairs) = 0 THEN BTreeNew
    ELSE LET front == SubSeq(pairs, 1, Len(pairs) - 1)
             last == pairs[Len(pairs)]
         IN  BTreeInsert(BTreeFrom(front), last[1], last[2])

-----------------------------------------------------------------------------
(* lib.rs: the canonicalizer *)

get_query_string_nosep(param) ==
    Join([i \in DOMAIN param |-> param[i][1] \o s_eq \o param[i][2]], s_empty)

get_query_string(param) ==
    Join([i \in DOMAIN param |-> param[i][1] \o s_eq \o param[i][2]], s_amp)

-----------------------------------------------------------------------------
(* The canonicalizer specification: two parameter maps are built by        *)
(* insertions in any order, then get_query_string is called on both.       *)

CanonKeys == { <<97>>, <<66>>, <<97, 98>> }                \* "a", "B", "ab"
CanonValues == { <<49>>, <<120, 38, 121, 61, 122>> }       \* "1", "x&y=z"

NoOutput == [called |-> FALSE]

CanonInit ==
    /\ mapA = BTreeNew
    /\ mapB = BTreeNew
    /\ canonOut = NoOutput
    /\ facade = [p \in {"Binance", "Bithumb", "Okx", "Upbit"} |-> [built |-> FALSE]]
    /\ newResult = [called |-> FALSE]
    /\ lookup = [called |-> FALSE]
    /\ now = 9 /\ uuids = 0 /\ inflight = {} /\ done = [id |-> 0] /\ started = 0
    /\ nonceLog = <<>>
    /\ symLog = <<>> /\ sigLog = <<>>

CanonInsertA(k, v) ==
    /\ canonOut = NoOutput
    /\ BTreeHas(mapA, k) \/ Len(mapA) < MaxEntries
    /\ mapA' = BTreeInsert(mapA, k, v)
    /\ UNCHANGED <<mapB, canonOut, newVars, callVars, symVars>>

CanonInsertB(k, v) ==
    /\ canonOut = NoOutput
    /\ BTreeHas(mapB, k) \/ Len(mapB) < MaxEntries
    /\ mapB' = BTreeInsert(mapB, k, v)
    /\ UNCHANGED <<mapA, canonOut, newVars, callVars, symVars>>

CanonCall ==
    \* get_query_string takes its argument by value: the maps are consumed
    /\ canonOut = NoOutput
    /\ canonOut' = [called |-> TRUE, argA |-> mapA, argB |-> mapB,
                    strA |-> get_query_string(mapA), strB |-> get_query_string(mapB)]
    /\ UNCHANGED <<mapA, mapB, newVars, callVars, symVars>>

CanonNext ==
    \/ \E k \in CanonKeys, v \in CanonValues : CanonInsertA(k, v)
    \/ \E k \in CanonKeys, v \in CanonValues : CanonInsertB(k, v)
    \/ CanonCall

-----------------------------------------------------------------------------
(* Result<T, String> and Option<T>.  Error messages are Rust string        *)
(* literals that the code only passes on: they are written as TLA+ strings *)

Ok(v) == [ok |-> TRUE, value |-> v]
Err(e) == [ok |-> FALSE, err |-> e]

None == [some |-> FALSE]
Some(v) == [some |-> TRUE, value |-> v]

-----------------------------------------------------------------------------
(* serde_json::Value *)

JNull == [t |-> "null"]
JStr(s) == [t |-> "string", s |-> s]
JObj(m) == [t |-> "object", o |-> m]

JIndex(v, key) ==
    \* Value's Index<&str>: Null unless v is an object that has the key
    IF v.t = "object" /\ BTreeHas(v.o, key) THEN BTreeGet(v.o, key) ELSE JNull

as_str(v) == IF v.t = "string" THEN Some(v.s) ELSE None

unwrap_or_default(o) == IF o.some THEN o.value ELSE s_empty

-----------------------------------------------------------------------------
(* Keyed hashes, digests and encodings, as free constructors *)

HmacNew(alg, key) == [alg |-> alg, key |-> key]                      \* Hmac::<D>::new_from_slice
HmacFinalize(mac, msg) == [mac |-> mac.alg, key |-> mac.key, msg |-> msg]   \* update; finalize
Sha512Digest(msg) == [digest |-> "SHA512", msg |-> msg]
HexEncode(x) == [hex |-> x]
OutputSize(alg) == IF alg = "HMAC-SHA256" THEN 32 ELSE 64                \* bytes of the MAC
HexLen(h) == 2 * OutputSize(h.hex.mac)                                   \* hex::encode: two digits a byte
Base64Encode(x) == [base64 |-> x]

JwtAlgorithm(key) ==
    \* jwt's SigningAlgorithm for Hmac<D>: the digest of the key decides the algorithm
    IF key.alg = "HMAC-SHA256" THEN "HS256" ELSE "HS512"

sign_with_key(claims, key) ==
    \* jwt::SignWithKey: header {alg}, the claims, and the MAC of header.claims under key
    [header |-> [alg |-> JwtAlgorithm(key)],
     claims |-> claims,
     signature |-> HmacFinalize(key, <<JwtAlgorithm(key), claims>>)]

Bearer(token) == [scheme |-> "Bearer", token |-> token]               \* format!("Bearer {}", token)

-----------------------------------------------------------------------------
(* The four facades: construction and endpoint registry *)

Providers == {"Binance", "Bithumb", "Okx", "Upbit"}

NoFacade == [built |-> FALSE]

binance_validate_api_credentials_and(api_key, secret) ==
    IF api_key = s_empty /\ secret = s_empty
    THEN Err("API key and Secret cannot be empty")
    ELSE Ok(TRUE)

binance_validate_api_credentials(api_key, secret) ==
    IF api_key = s_empty \/ secret = s_empty
    THEN Err("API key and Secret cannot be empty")
    ELSE Ok(TRUE)

binance_new(api_key, secret) ==
    LET v == binance_validate_api_credentials(api_key, secret) IN
    IF ~v.ok THEN Err(v.err)
    ELSE Ok([built |-> TRUE,
             name |-> "Binance",
             api_url |-> <<104, 116, 116, 112, 115, 58, 47, 47, 97, 112, 105, 49, 46, 98, 105, 110, 97, 110, 99, 101, 46, 99, 111, 109, 47>>,   \* "https://api1.binance.com/"
             api_key |-> api_key,
             secret |-> secret,
             endpoint |-> BTreeFrom(<<
                 <<s_make_order, <<s_POST, <<97, 112, 105, 47, 118, 51, 47, 111, 114, 100, 101, 114>> >> >>,      \* "api/v3/order"
                 <<s_cancel_order, <<s_DELETE, <<97, 112, 105, 47, 118, 51, 47, 111, 114, 100, 101, 114>> >> >>,  \* "api/v3/order"
                 <<s_order_book, <<s_GET, <<97, 112, 105, 47, 118, 51, 47, 100, 101, 112, 116, 104>> >> >>,       \* "api/v3/depth"
                 <<s_current_price, <<s_GET, <<97, 112, 105, 47, 118, 51, 47, 116, 105, 99, 107, 101, 114, 47, 112, 114, 105, 99, 101>> >> >>,   \* "api/v3/ticker/price"
                 <<s_coin_list, <<s_GET, <<97, 112, 105, 47, 118, 51, 47, 101, 120, 99, 104, 97, 110, 103, 101, 73, 110, 102, 111>> >> >>   \* "api/v3/exchangeInfo"
             >>)])

bithumb_validate_api_credentials(api_key, secret) ==
    IF api_key = s_empty \/ secret = s_empty
    THEN Err("API key and Secret cannot be empty")
    ELSE Ok(TRUE)

bithumb_new(api_key, secret) ==
    LET v == bithumb_validate_api_credentials(api_key, secret) IN
    IF ~v.ok THEN Err(v.err)
    ELSE Ok([built |-> TRUE,
             name |-> "Bithumb",
             api_url |-> <<104, 116, 116, 112, 115, 58, 47, 47, 97, 112, 105, 46, 98, 105, 116, 104, 117, 109, 98, 46, 99, 111, 109, 47>>,   \* "https://api.bithumb.com/"
             api_key |-> api_key,
             secret |-> secret,
             endpoint |-> BTreeFrom(<<
                 <<s_make_order, <<s_POST, <<118, 49, 47, 111, 114, 100, 101, 114, 115>> >> >>,                   \* "v1/orders"
                 <<s_cancel_order, <<s_DELETE, <<118, 49, 47, 111, 114, 100, 101, 114>> >> >>,                    \* "v1/order"
                 <<s_order_book, <<s_GET, <<118, 49, 47, 111, 114, 100, 101, 114, 98, 111, 111, 107>> >> >>,      \* "v1/orderbook"
                 <<s_current_price, <<s_GET, <<118, 49, 47, 116, 105, 99, 107, 101, 114>> >> >>,                  \* "v1/ticker"
                 <<s_coin_list, <<s_GET, <<118, 49, 47, 109, 97, 114, 107, 101, 116, 47, 97, 108, 108>> >> >>     \* "v1/market/all"
             >>)])

okx_validate_api_credentials(api_key, secret, passphrase) ==
    IF api_key = s_empty \/ secret = s_empty \/ passphrase = s_empty
    THEN Err("API key, Secret, and Passphrase cannot be empty")
    ELSE Ok(TRUE)

okx_new(api_key, secret, passphrase) ==
    LET v == okx_validate_api_credentials(api_key, secret, passphrase) IN
    IF ~v.ok THEN Err(v.err)
    ELSE Ok([built |-> TRUE,
             name |-> "Okx",
             api_url |-> <<104, 116, 116, 112, 115, 58, 47, 47, 119, 119, 119, 46, 111, 107, 120, 46, 99, 111, 109, 47>>,   \* "https://www.okx.com/"
             api_key |-> api_key,
             secret |-> secret,
             passphrase |-> passphrase,
             endpoint |-> BTreeFrom(<<
                 <<s_make_order, <<s_POST, <<97, 112, 105, 47, 118, 53, 47, 116, 114, 97, 100, 101, 47, 111, 114, 100, 101, 114>> >> >>,   \* "api/v5/trade/order"
                 <<s_cancel_order, <<s_POST, <<97, 112, 105, 47, 118, 53, 47, 116, 114, 97, 100, 101, 47, 99, 97, 110, 99, 101, 108, 45, 111, 114, 100, 101, 114>> >> >>,   \* "api/v5/trade/cancel-order"
                 <<s_order_book, <<s_GET, <<97, 112, 105, 47, 118, 53, 47, 109, 97, 114, 107, 101, 116, 47, 98, 111, 111, 107, 115, 45, 102, 117, 108, 108>> >> >>,   \* "api/v5/market/books-full"
                 <<s_current_price, <<s_GET, <<97, 112, 105, 47, 118, 53, 47, 109, 97, 114, 107, 101, 116, 47, 112, 114, 105, 99, 101>> >> >>   \* "api/v5/market/price"
             >>)])

upbit_validate_api_credentials(api_key, secret) ==
    IF api_key = s_empty \/ secret = s_empty
    THEN Err("API key and Secret cannot be empty")
    ELSE Ok(TRUE)

upbit_new(api_key, secret) ==
    LET v == upbit_validate_api_credentials(api_key, secret) IN
    IF ~v.ok THEN Err(v.err)
    ELSE Ok([built |-> TRUE,
             name |-> "Upbit",
             api_url |-> <<104, 116, 116, 112, 115, 58, 47, 47, 97, 112, 105, 46, 117, 112, 98, 105, 116, 46, 99, 111, 109, 47>>,   \* "https://api.upbit.com/"
             api_key |-> api_key,
             secret |-> secret,
             endpoint |-> BTreeFrom(<<
                 <<s_make_order, <<s_POST, <<118, 49, 47, 111, 114, 100, 101, 114, 115>> >> >>,                   \* "v1/orders"
                 <<s_cancel_order, <<s_DELETE, <<118, 49, 47, 111, 114, 100, 101, 114>> >> >>,                    \* "v1/order"
                 <<s_order_book, <<s_GET, <<118, 49, 47, 111, 114, 100, 101, 114, 98, 111, 111, 107>> >> >>       \* "v1/orderbook"
             >>)])

get_end_point_with_key_or_first(self, key) ==
    IF BTreeHas(self.endpoint, key) THEN Some(BTreeGet(self.endpoint, key))
    ELSE Some(self.endpoint[1][2])

get_end_point_with_key(self, key) ==
    \* self.endpoint.get(key), the same in all four facades
    IF BTreeHas(self.endpoint, key) THEN Some(BTreeGet(self.endpoint, key)) ELSE None

-----------------------------------------------------------------------------
(* Strings, continued: u64::to_string and str::split on a one-byte pattern *)

RECURSIVE to_string(_)
to_string(n) ==
    IF n < 10 THEN <<48 + n>> ELSE to_string(n \div 10) \o <<48 + (n % 10)>>

RECURSIVE Split(_, _)
Split(str, sep) ==
    IF \E i \in DOMAIN str : str[i] = sep
    THEN LET i == CHOOSE i \in DOMAIN str : str[i] = sep /\ \A j \in 1..(i - 1) : str[j] # sep
         IN  <<SubSeq(str, 1, i - 1)>> \o Split(SubSeq(str, i + 1, Len(str)), sep)
    ELSE <<str>>

-----------------------------------------------------------------------------
(* What one facade call has done up to the point where it returns, panics  *)
(* or awaits the HTTP sender.                                              *)

Run0 ==
    [panicked |-> FALSE,     \* an unwrap, expect or index out of bounds aborted the call
     clock_reads |-> 0,      \* calls of get_current_timestamp_in_millis
     uuid_draws |-> 0,       \* calls of Uuid::new_v4
     param |-> None,         \* the parameter map given to send_req_with_sign
     endpoint_key |-> None,  \* the endpoint key given to send_req_with_sign
     base |-> None,          \* the result of get_end_point_with_key, once looked up
     auth |-> None,          \* the auth artifact the signer produced
     request |-> None,       \* the request handed to the HTTP sender
     stdout |-> <<>>,        \* the values written by println!, in order
     result |-> None]        \* the value returned to the caller

Panicked(run) == [run EXCEPT !.panicked = TRUE]

Returned(run, r) == [run EXCEPT !.result = Some(r)]

println(run, v) == [run EXCEPT !.stdout = Append(@, v)]

-----------------------------------------------------------------------------
(* lib.rs: send, up to the await of client.execute *)

HeaderValue(headers, name) ==
    \* HeaderMap::get: the first value under the name
    IF \E i \in DOMAIN headers : headers[i][1] = name
    THEN Some(headers[CHOOSE i \in DOMAIN headers :
                        headers[i][1] = name /\ \A j \in 1..(i - 1) : headers[j][1] # name][2])
    ELSE None

build_request(method, uri, headers, body) ==
    \* Request::builder().method(..).uri(..).header(..)...body(..)
    Ok([method |-> method, uri |-> uri, headers |-> headers, body |-> body])

send_begin_json_fallback(req) ==
    LET h == HeaderValue(req.headers, "content-type")
        content_type == IF h.some THEN h.value ELSE "application/json"
    IN  IF content_type = "application/x-www-form-urlencoded"
        THEN Ok([method |-> req.method, url |-> req.uri, headers |-> req.headers,
                 body |-> [encoding |-> "form", data |-> req.body]])
        ELSE Ok([method |-> req.method, url |-> req.uri, headers |-> req.headers,
                 body |-> [encoding |-> "json", data |-> req.body]])

send_begin(req) ==
    LET h == HeaderValue(req.headers, "content-type")
        content_type == IF h.some THEN h.value ELSE "application/json"
    IN  IF content_type = "application/x-www-form-urlencoded"
        THEN Ok([method |-> req.method, url |-> req.uri, headers |-> req.headers,
                 body |-> [encoding |-> "form", data |-> req.body]])
        ELSE IF content_type = "application/json"
        THEN Ok([method |-> req.method, url |-> req.uri, headers |-> req.headers,
                 body |-> [encoding |-> "json", data |-> req.body]])
        ELSE Err("Unsupported Content-Type")

Sent(run, request) ==
    \* build_request(..)? then send(request).await
    IF ~request.ok THEN Returned(run, Err(request.err))
    ELSE LET wire == send_begin(request.value) IN
         IF ~wire.ok THEN Returned(run, Err(wire.err))
         ELSE [run EXCEPT !.request = Some(wire.value)]

from_slice(body) ==
    \* serde_json::from_slice(..).map_err(|e| e.to_string())
    IF body.json THEN Ok(body.value) ELSE Err("expected value at line 1 column 1")

-----------------------------------------------------------------------------
(* binance/mod.rs *)

binance_create_hmac_key(self) == Ok(HmacNew("HMAC-SHA256", self.secret))

binance_get_signature_counted(self, params) ==
    LET query_string == get_query_string(params)
        mac == binance_create_hmac_key(self)
    IN  IF ~mac.ok THEN Err(mac.err)
        ELSE Ok(HexEncode(HmacFinalize(mac.value, query_string \o <<48 + Len(sigLog)>>)))

binance_get_signature(self, params) ==
    LET query_string == get_query_string(params)
        mac == binance_create_hmac_key(self)
    IN  IF ~mac.ok THEN Err(mac.err)
        ELSE Ok(HexEncode(HmacFinalize(mac.value, query_string)))

binance_send_req_with_sign_signs_body(self, param, endpoint_key) ==
    LET run == [Run0 EXCEPT !.param = Some(param), !.endpoint_key = Some(endpoint_key)]
        base == get_end_point_with_key(self, endpoint_key)
    IN  IF ~base.some THEN Returned([run EXCEPT !.base = Some(base)], Err("Endpoint not found"))
        ELSE LET uri == self.api_url \o base.value[2]
                 body0 == BTreeInsert(param, s_signature, s_empty)
                 signature == binance_get_signature(self, body0)
             IN  IF ~signature.ok
                 THEN Returned([run EXCEPT !.base = Some(base)], Err(signature.err))
                 ELSE Sent([run EXCEPT !.base = Some(base), !.auth = Some(signature.value)],
                           build_request(base.value[1], uri,
                               << <<"content-type", "application/x-www-form-urlencoded">>,
                                  <<"x-mbx-apikey", self.api_key>> >>,
                               BTreeInsert(body0, s_signature, signature.value)))

binance_send_req_with_sign(self, param, endpoint_key) ==
    LET run == [Run0 EXCEPT !.param = Some(param), !.endpoint_key = Some(endpoint_key)]
        base == get_end_point_with_key(self, endpoint_key)
    IN  IF ~base.some THEN Returned([run EXCEPT !.base = Some(base)], Err("Endpoint not found"))
        ELSE LET uri == self.api_url \o base.value[2]
                 signature == binance_get_signature(self, param)
             IN  IF ~signature.ok
                 THEN Returned([run EXCEPT !.base = Some(base)], Err(signature.err))
                 ELSE Sent([run EXCEPT !.base = Some(base), !.auth = Some(signature.value)],
                           build_request(base.value[1], uri,
                               << <<"content-type", "application/x-www-form-urlencoded">>,
                                  <<"x-mbx-apikey", self.api_key>> >>,
                               BTreeInsert(param, s_signature, signature.value)))

binance_parse_symbol(symbol) ==
    \* v[1] is out of bounds when the symbol has no '/'
    LET v == Split(symbol, 47) IN
    IF Len(v) < 2 THEN None ELSE Some(v[1] \o v[2])

ReadClock(run) == [run EXCEPT !.clock_reads = @ + 1]

binance_place_order(self, req, t) ==
    LET timestamp_ == to_string(t)
        symbol == binance_parse_symbol(unwrap_or_default(as_str(JIndex(req, s_symbol))))
    IN  IF ~symbol.some THEN Panicked(ReadClock(Run0))
        ELSE LET params == BTreeFrom(<<
                     <<s_symbol, symbol.value>>,
                     <<s_side, unwrap_or_default(as_str(JIndex(req, s_side)))>>,
                     <<s_type, unwrap_or_default(as_str(JIndex(req, s_order_type)))>>,
                     <<s_price, unwrap_or_default(as_str(JIndex(req, s_price)))>>,
                     <<s_quantity, unwrap_or_default(as_str(JIndex(req, s_amount)))>>,
                     <<s_timestamp, timestamp_>>,
                     <<s_newOrderRespType, s_RESULT>> >>)
             IN  ReadClock(binance_send_req_with_sign(self, params, s_make_order))

binance_cancel_order(self, req, t) ==
    LET timestamp_ == to_string(t)
        sym == as_str(JIndex(req, s_symbol))
    IN  IF ~sym.some THEN Panicked(ReadClock(Run0))
        ELSE LET symbol == binance_parse_symbol(sym.value) IN
             IF ~symbol.some THEN Panicked(ReadClock(Run0))
             ELSE LET params == BTreeFrom(<<
                          <<s_symbol, symbol.value>>,
                          <<s_orderId, unwrap_or_default(as_str(JIndex(req, s_order_id)))>>,
                          <<s_timestamp, timestamp_>> >>)
                  IN  ReadClock(binance_send_req_with_sign(self, params, s_cancel_order))

-----------------------------------------------------------------------------
(* okx/mod.rs *)

okx_create_hmac_key(self) == Ok(HmacNew("HMAC-SHA256", self.secret))

okx_get_signature(self, params, timestamp, method, endpoint) ==
    LET query_string == Join([i \in DOMAIN params |-> params[i][1] \o s_eq \o params[i][2]], s_amp)
        mac == okx_create_hmac_key(self)
    IN  IF ~mac.ok THEN Err(mac.err)
        ELSE Ok(Base64Encode(HmacFinalize(mac.value,
                    timestamp \o method \o endpoint \o s_qmark \o query_string)))

okx_send_req_with_sign_rereads(self, param, endpoint_key, t) ==
    \* as okx_send_req_with_sign, but the header's timestamp comes from a second
    \* reading of the clock, one millisecond later
    LET run == ReadClock(ReadClock(
                   [Run0 EXCEPT !.param = Some(param), !.endpoint_key = Some(endpoint_key)]))
        authorization == okx_get_signature(self, param, to_string(t), s_POST, endpoint_key)
        base == get_end_point_with_key(self, endpoint_key)
    IN  IF ~authorization.ok THEN Returned(run, Err(authorization.err))
        ELSE IF ~base.some
        THEN Returned([run EXCEPT !.base = Some(base), !.auth = Some(authorization.value)],
                      Err("Endpoint not found"))
        ELSE Sent([run EXCEPT !.base = Some(base), !.auth = Some(authorization.value)],
                  build_request(base.value[1], self.api_url \o base.value[2],
                      << <<"ok-access-key", self.api_key>>,
                         <<"ok-access-sign", authorization.value>>,
                         <<"ok-access-timestamp", to_string(t + 1)>>,
                         <<"ok-access-passphrase", self.passphrase>>,
                         <<"content-type", "application/json">> >>,
                      param))

okx_send_req_with_sign(self, param, endpoint_key, t) ==
    LET run == ReadClock([Run0 EXCEPT !.param = Some(param), !.endpoint_key = Some(endpoint_key)])
        timestamp == to_string(t)
        authorization == okx_get_signature(self, param, timestamp, s_POST, endpoint_key)
    IN  IF ~authorization.ok THEN Returned(run, Err(authorization.err))
        ELSE LET base == get_end_point_with_key(self, endpoint_key) IN
             IF ~base.some
             THEN Returned([run EXCEPT !.base = Some(base), !.auth = Some(authorization.value)],
                           Err("Endpoint not found"))
             ELSE LET uri == self.api_url \o base.value[2] IN
                  Sent([run EXCEPT !.base = Some(base), !.auth = Some(authorization.value)],
                       build_request(base.value[1], uri,
                           << <<"ok-access-key", self.api_key>>,
                              <<"ok-access-sign", authorization.value>>,
                              <<"ok-access-timestamp", timestamp>>,
                              <<"ok-access-passphrase", self.passphrase>>,
                              <<"content-type", "application/json">> >>,
                           param))

okx_parse_symbol(symbol) ==
    LET v == Split(symbol, 47) IN
    IF Len(v) < 2 THEN None ELSE Some(v[1] \o s_dash \o v[2])

okx_place_order_strict(self, req, t) ==
    \* as okx_place_order, but a payload without side is rejected
    LET symbol == okx_parse_symbol(unwrap_or_default(as_str(JIndex(req, s_symbol)))) IN
    IF ~symbol.some THEN Panicked(Run0)
    ELSE IF ~as_str(JIndex(req, s_side)).some THEN Returned(Run0, Err("side is required"))
    ELSE LET params == BTreeFrom(<<
                 <<s_instId, symbol.value>>,
                 <<s_side, unwrap_or_default(as_str(JIndex(req, s_side)))>>,
                 <<s_ordType, unwrap_or_default(as_str(JIndex(req, s_order_type)))>>,
                 <<s_px, unwrap_or_default(as_str(JIndex(req, s_price)))>>,
                 <<s_sz, unwrap_or_default(as_str(JIndex(req, s_amount)))>>,
                 <<s_tdMode, s_cash>> >>)
         IN  okx_send_req_with_sign(self, params, s_make_order, t)

okx_place_order(self, req, t) ==
    LET symbol == okx_parse_symbol(unwrap_or_default(as_str(JIndex(req, s_symbol)))) IN
    IF ~symbol.some THEN Panicked(Run0)
    ELSE LET params == BTreeFrom(<<
                 <<s_instId, symbol.value>>,
                 <<s_side, unwrap_or_default(as_str(JIndex(req, s_side)))>>,
                 <<s_ordType, unwrap_or_default(as_str(JIndex(req, s_order_type)))>>,
                 <<s_px, unwrap_or_default(as_str(JIndex(req, s_price)))>>,
                 <<s_sz, unwrap_or_default(as_str(JIndex(req, s_amount)))>>,
                 <<s_tdMode, s_cash>> >>)
         IN  okx_send_req_with_sign(self, params, s_make_order, t)

okx_cancel_order(self, req, t) ==
    LET symbol == okx_parse_symbol(unwrap_or_default(as_str(JIndex(req, s_symbol)))) IN
    IF ~symbol.some THEN Panicked(Run0)
    ELSE LET params == BTreeFrom(<<
                 <<s_instId, symbol.value>>,
                 <<s_ordId, unwrap_or_default(as_str(JIndex(req, s_order_id)))>> >>)
         IN  okx_send_req_with_sign(self, params, s_cancel_order, t)

-----------------------------------------------------------------------------
(* uuid: Uuid::new_v4 draws 122 random bits; the u-th draw is modelled as  *)
(* the value u, distinct from every other draw.  Uuid::to_string is a      *)
(* one-to-one rendering.                                                   *)

Uuid_nil == [uuid |-> 0]
Uuid_new_v4(u) == [uuid |-> u]
uuid_to_string(id) == [hyphenated |-> id.uuid]

-----------------------------------------------------------------------------
(* upbit/mod.rs *)

upbit_create_hmac_key(self) == Ok(HmacNew("HMAC-SHA256", self.secret))

upbit_get_authorization_header_nil_nonce(self, param, u) ==
    \* as get_authorization_header, with Uuid::nil() for Uuid::new_v4()
    LET query == get_query_string(param)
        query_hash == HexEncode(Sha512Digest(query))
        nonce == uuid_to_string(Uuid_nil)
        payload == BTreeFrom(<<
            <<s_access_key, self.api_key>>,
            <<s_nonce, nonce>>,
            <<s_query_hash, query_hash>>,
            <<s_query_hash_alg, s_SHA512>> >>)
        key == upbit_create_hmac_key(self)
    IN  IF ~key.ok THEN Err(key.err)
        ELSE Ok(Bearer(sign_with_key(payload, key.value)))

upbit_get_authorization_header(self, param, u) ==
    LET query == get_query_string(param)
        query_hash == HexEncode(Sha512Digest(query))
        nonce == uuid_to_string(Uuid_new_v4(u))
        payload == BTreeFrom(<<
            <<s_access_key, self.api_key>>,
            <<s_nonce, nonce>>,
            <<s_query_hash, query_hash>>,
            <<s_query_hash_alg, s_SHA512>> >>)
        key == upbit_create_hmac_key(self)
    IN  IF ~key.ok THEN Err(key.err)
        ELSE Ok(Bearer(sign_with_key(payload, key.value)))

upbit_send_req_with_sign(self, param, endpoint_key, u) ==
    LET run == [Run0 EXCEPT !.param = Some(param), !.endpoint_key = Some(endpoint_key),
                            !.uuid_draws = 1]
        authorization == upbit_get_authorization_header(self, param, u)
    IN  IF ~authorization.ok THEN Returned(run, Err(authorization.err))
        ELSE LET base == get_end_point_with_key(self, endpoint_key) IN
             IF ~base.some
             THEN Returned([run EXCEPT !.base = Some(base), !.auth = Some(authorization.value)],
                           Err("Endpoint not found"))
             ELSE LET uri == self.api_url \o base.value[2] IN
                  Sent([run EXCEPT !.base = Some(base), !.auth = Some(authorization.value)],
                       build_request(base.value[1], uri,
                           << <<"authorization", authorization.value>>,
                              <<"content-type", "application/json">> >>,
                           param))

upbit_parse_symbol(symbol) ==
    LET v == Split(symbol, 47) IN
    IF Len(v) < 2 THEN None ELSE Some(v[2] \o s_dash \o v[1])

upbit_place_order(self, req, u) ==
    LET sym == as_str(JIndex(req, s_symbol)) IN
    IF ~sym.some THEN Panicked(Run0)
    ELSE LET symbol == upbit_parse_symbol(sym.value) IN
         IF ~symbol.some THEN Panicked(Run0)
         ELSE LET params == BTreeFrom(<<
                      <<s_market, symbol.value>>,
                      <<s_side, unwrap_or_default(as_str(JIndex(req, s_side)))>>,
                      <<s_ord_type, unwrap_or_default(as_str(JIndex(req, s_order_type)))>>,
                      <<s_price, unwrap_or_default(as_str(JIndex(req, s_price)))>>,
                      <<s_volume, unwrap_or_default(as_str(JIndex(req, s_amount)))>> >>)
              IN  upbit_send_req_with_sign(self, params, s_make_order, u)

upbit_cancel_order(self, req, u) ==
    LET params == BTreeFrom(<< <<s_uuid, unwrap_or_default(as_str(JIndex(req, s_order_id)))>> >>)
    IN  upbit_send_req_with_sign(self, params, s_cancel_order, u)

-----------------------------------------------------------------------------
(* bithumb/mod.rs *)

bithumb_create_hmac_key(self) == Ok(HmacNew("HMAC-SHA512", self.secret))

bithumb_get_authorization_header(self, param, u) ==
    LET query == get_query_string(param)
        query_hash == HexEncode(Sha512Digest(query))
        nonce == uuid_to_string(Uuid_new_v4(u))
        payload == BTreeFrom(<<
            <<s_access_key, self.api_key>>,
            <<s_nonce, nonce>>,
            <<s_query_hash, query_hash>>,
            <<s_query_hash_alg, s_SHA512>> >>)
        key == bithumb_create_hmac_key(self)
    IN  IF ~key.ok THEN Err(key.err)
        ELSE Ok(Bearer(sign_with_key(payload, key.value)))

bithumb_send_req_with_sign(self, param, endpoint_key, u) ==
    LET run == [Run0 EXCEPT !.param = Some(param), !.endpoint_key = Some(endpoint_key),
                            !.uuid_draws = 1]
        authorization == bithumb_get_authorization_header(self, param, u)
    IN  IF ~authorization.ok THEN Returned(run, Err(authorization.err))
        ELSE LET base == get_end_point_with_key(self, endpoint_key) IN
             IF ~base.some
             THEN Returned([run EXCEPT !.base = Some(base), !.auth = Some(authorization.value)],
                           Err("Endpoint not found"))
             ELSE LET uri == self.api_url \o base.value[2] IN
                  Sent([run EXCEPT !.base = Some(base), !.auth = Some(authorization.value)],
                       build_request(base.value[1], uri,
                           << <<"authorization", authorization.value>>,
                              <<"content-type", "application/json">> >>,
                           param))

bithumb_parse_symbol(symbol) ==
    LET v == Split(symbol, 47) IN
    IF Len(v) < 2 THEN None ELSE Some(v[2] \o s_dash \o v[1])

bithumb_place_order(self, req, u) ==
    LET sym == as_str(JIndex(req, s_symbol)) IN
    IF ~sym.some THEN Panicked(Run0)
    ELSE LET symbol == bithumb_parse_symbol(sym.value) IN
         IF ~symbol.some THEN Panicked(Run0)
         ELSE LET params == BTreeFrom(<<
                      <<s_market, symbol.value>>,
                      <<s_side, unwrap_or_default(as_str(JIndex(req, s_side)))>>,
                      <<s_ord_type, unwrap_or_default(as_str(JIndex(req, s_order_type)))>>,
                      <<s_price, unwrap_or_default(as_str(JIndex(req, s_price)))>>,
                      <<s_volume, unwrap_or_default(as_str(JIndex(req, s_amount)))>> >>)
              IN  bithumb_send_req_with_sign(self, params, s_make_order, u)

bithumb_cancel_order(self, req, u) ==
    LET params == BTreeFrom(<< <<s_uuid, unwrap_or_default(as_str(JIndex(req, s_order_id)))>> >>)
    IN  bithumb_send_req_with_sign(self, params, s_cancel_order, u)

-----------------------------------------------------------------------------
(* The construction specification: facades are built from any credentials, *)
(* and endpoints are looked up on the facades that were built.             *)

ApiKeys == { s_empty, <<97, 107>> }           \* "", "ak"
Secrets == { s_empty, <<115, 107>> }          \* "", "sk"
Passphrases == { s_empty, <<112, 112>> }      \* "", "pp"

EndpointKeys == { s_make_order, s_cancel_order, s_order_book, s_current_price,
                  s_coin_list, s_non_existing }

NoResult == [called |-> FALSE]

NoCall == [id |-> 0]

NewOutcome(p, api_key, secret, passphrase, r) ==
    [called |-> TRUE, provider |-> p, api_key |-> api_key, secret |-> secret,
     passphrase |-> passphrase, result |-> r]

KeepFacade(p, r) ==
    \* the caller keeps the facade of a successful construction
    IF r.ok THEN [facade EXCEPT ![p] = r.value] ELSE facade

BinanceNew(api_key, secret) ==
    LET r == binance_new(api_key, secret) IN
    /\ newResult' = NewOutcome("Binance", api_key, secret, s_empty, r)
    /\ facade' = KeepFacade("Binance", r)
    /\ UNCHANGED <<lookup, canonVars, callVars, symVars>>

BithumbNew(api_key, secret) ==
    LET r == bithumb_new(api_key, secret) IN
    /\ newResult' = NewOutcome("Bithumb", api_key, secret, s_empty, r)
    /\ facade' = KeepFacade("Bithumb", r)
    /\ UNCHANGED <<lookup, canonVars, callVars, symVars>>

OkxNew(api_key, secret, passphrase) ==
    LET r == okx_new(api_key, secret, passphrase) IN
    /\ newResult' = NewOutcome("Okx", api_key, secret, passphrase, r)
    /\ facade' = KeepFacade("Okx", r)
    /\ UNCHANGED <<lookup, canonVars, callVars, symVars>>

UpbitNew(api_key, secret) ==
    LET r == upbit_new(api_key, secret) IN
    /\ newResult' = NewOutcome("Upbit", api_key, secret, s_empty, r)
    /\ facade' = KeepFacade("Upbit", r)
    /\ UNCHANGED <<lookup, canonVars, callVars, symVars>>

GetEndPointWithKey(p, key) ==
    /\ facade[p].built
    /\ lookup' = [called |-> TRUE, provider |-> p, key |-> key,
                  result |-> get_end_point_with_key(facade[p], key)]
    /\ UNCHANGED <<facade, newResult, canonVars, callVars, symVars>>

NewNext ==
    \/ \E k \in ApiKeys, s \in Secrets : BinanceNew(k, s)
    \/ \E k \in ApiKeys, s \in Secrets : BithumbNew(k, s)
    \/ \E k \in ApiKeys, s \in Secrets, pw \in Passphrases : OkxNew(k, s, pw)
    \/ \E k \in ApiKeys, s \in Secrets : UpbitNew(k, s)
    \/ \E p \in Providers, key \in EndpointKeys : GetEndPointWithKey(p, key)

NewInit ==
    \* nothing has been constructed, no call was made
    /\ mapA = BTreeNew /\ mapB = BTreeNew /\ canonOut = NoOutput
    /\ facade = [p \in Providers |-> NoFacade]
    /\ newResult = NoResult
    /\ lookup = NoResult
    /\ now = 9 /\ uuids = 0 /\ inflight = {} /\ done = NoCall /\ started = 0
    /\ nonceLog = <<>>
    /\ symLog = <<>> /\ sigLog = <<>>

SpecCanon == CanonInit /\ [][CanonNext]_vars

SpecNew == NewInit /\ [][NewNext]_vars

-----------------------------------------------------------------------------
(* The call specification: the four facades exist; place_order,            *)
(* cancel_order and send_req_with_sign are called on them in any order and *)
(* the HTTP sender answers the calls in flight in any order.               *)

ClockStart == 9     \* the first reading of the clock, in milliseconds

MaxClock == ClockStart + MaxTime

ReqFull == JObj(BTreeFrom(<<
    <<s_symbol, JStr(<<66, 84, 67, 47, 85, 83, 68, 84>>)>>,           \* "BTC/USDT"
    <<s_side, JStr(<<98, 117, 121>>)>>,                                      \* "buy"
    <<s_order_type, JStr(<<108, 105, 109, 105, 116>>)>>,                      \* "limit"
    <<s_price, JStr(<<49, 48, 48>>)>>,                                      \* "100"
    <<s_amount, JStr(<<49>>)>>,                                             \* "1"
    <<s_order_id, JStr(<<52>>)>> >>))                                       \* "4"

ReqOrderIdOnly == JObj(BTreeFrom(<< <<s_order_id, JStr(<<52>>)>> >>))       \* {"order_id": "4"}

ReqNoSlash == JObj(BTreeFrom(<<
    <<s_symbol, JStr(<<66, 84, 67, 85, 83, 68, 84>>)>>,                \* "BTCUSDT"
    <<s_order_id, JStr(<<52>>)>> >>))

Reqs == {ReqFull, ReqOrderIdOnly, ReqNoSlash}

DirectParams ==
    { BTreeFrom(<< <<s_symbol, <<66, 84, 67, 85, 83, 68, 84>>>> >>),                   \* symbol=BTCUSDT
      BTreeFrom(<< <<s_uuid, <<52>>>>, <<s_signature, <<49>>>> >>) }         \* signature=1&uuid=4

DirectKeys == {s_coin_list, s_non_existing}

Replies ==
    { [error |-> TRUE],                                               \* the connection failed or timed out
      [error |-> FALSE, body |-> [json |-> TRUE, value |-> JObj(BTreeNew)]],   \* {}
      [error |-> FALSE, body |-> [json |-> FALSE]] }                  \* not JSON

CallOf(p, op, req, run) ==
    [id |-> started + 1, provider |-> p, op |-> op, req |-> req, run |-> run, reply |-> None]

InFlight(run) == run.request.some /\ ~run.panicked

NonceOf(authorization) == BTreeGet(authorization.token.claims, s_nonce)

Begin(p, op, req, run, t) ==
    \* the call runs up to its first await, its return or its panic
    /\ InFlight(run) => Cardinality(inflight) < MaxInFlight
    /\ started' = started + 1
    /\ now' = IF run.clock_reads > 0 THEN t ELSE now
    /\ uuids' = uuids + run.uuid_draws
    /\ nonceLog' = IF run.uuid_draws > 0 /\ run.auth.some
                   THEN Append(nonceLog, NonceOf(run.auth.value))
                   ELSE nonceLog
    /\ IF InFlight(run)
       THEN inflight' = inflight \cup {CallOf(p, op, req, run)} /\ UNCHANGED done
       ELSE done' = CallOf(p, op, req, run) /\ UNCHANGED inflight
    /\ UNCHANGED <<canonVars, newVars, symVars>>

BinancePlaceOrder(req) ==
    /\ started < MaxCalls
    /\ \E t \in now..MaxClock :
           Begin("Binance", "place_order", Some(req),
                 binance_place_order(facade["Binance"], req, t), t)

BinanceCancelOrder(req) ==
    /\ started < MaxCalls
    /\ \E t \in now..MaxClock :
           Begin("Binance", "cancel_order", Some(req),
                 binance_cancel_order(facade["Binance"], req, t), t)

BinanceSendReqWithSign(param, endpoint_key) ==
    /\ started < MaxCalls
    /\ Begin("Binance", "send_req_with_sign", None,
             binance_send_req_with_sign(facade["Binance"], param, endpoint_key), now)

OkxPlaceOrder(req) ==
    /\ started < MaxCalls
    /\ \E t \in now..MaxClock :
           Begin("Okx", "place_order", Some(req), okx_place_order(facade["Okx"], req, t), t)

OkxCancelOrder(req) ==
    /\ started < MaxCalls
    /\ \E t \in now..MaxClock :
           Begin("Okx", "cancel_order", Some(req), okx_cancel_order(facade["Okx"], req, t), t)

OkxSendReqWithSign(param, endpoint_key) ==
    /\ started < MaxCalls
    /\ \E t \in now..MaxClock :
           Begin("Okx", "send_req_with_sign", None,
                 okx_send_req_with_sign(facade["Okx"], param, endpoint_key, t), t)

UpbitPlaceOrder(req) ==
    /\ started < MaxCalls
    /\ Begin("Upbit", "place_order", Some(req),
             upbit_place_order(facade["Upbit"], req, uuids + 1), now)

UpbitCancelOrder(req) ==
    /\ started < MaxCalls
    /\ Begin("Upbit", "cancel_order", Some(req),
             upbit_cancel_order(facade["Upbit"], req, uuids + 1), now)

UpbitSendReqWithSign(param, endpoint_key) ==
    /\ started < MaxCalls
    /\ Begin("Upbit", "send_req_with_sign", None,
             upbit_send_req_with_sign(facade["Upbit"], param, endpoint_key, uuids + 1), now)

BithumbPlaceOrder(req) ==
    /\ started < MaxCalls
    /\ Begin("Bithumb", "place_order", Some(req),
             bithumb_place_order(facade["Bithumb"], req, uuids + 1), now)

BithumbCancelOrder(req) ==
    /\ started < MaxCalls
    /\ Begin("Bithumb", "cancel_order", Some(req),
             bithumb_cancel_order(facade["Bithumb"], req, uuids + 1), now)

BithumbSendReqWithSign(param, endpoint_key) ==
    /\ started < MaxCalls
    /\ Begin("Bithumb", "send_req_with_sign", None,
             bithumb_send_req_with_sign(facade["Bithumb"], param, endpoint_key, uuids + 1), now)

SignedReply_cached(c, reply) ==
    IF reply.error
    THEN [c EXCEPT !.run = Panicked(c.run), !.reply = Some(reply)]
    ELSE IF done.id # 0 /\ done.run.result.some
    THEN [c EXCEPT !.run = Returned(c.run, done.run.result.value), !.reply = Some(reply)]
    ELSE [c EXCEPT !.run = Returned(c.run, from_slice(reply.body)), !.reply = Some(reply)]

SignedReply(c, reply) ==
    \* lib.rs send after the await (client.execute(..).await.unwrap()), then
    \* send_req_with_sign's from_slice(&body)
    IF reply.error
    THEN [c EXCEPT !.run = Panicked(c.run), !.reply = Some(reply)]
    ELSE [c EXCEPT !.run = Returned(c.run, from_slice(reply.body)), !.reply = Some(reply)]

TransportReply(c, reply) ==
    /\ c \in inflight
    /\ inflight' = inflight \ {c}
    /\ done' = SignedReply(c, reply)
    /\ UNCHANGED <<now, uuids, started, nonceLog, canonVars, newVars, symVars>>

Init ==
    /\ mapA = BTreeNew /\ mapB = BTreeNew /\ canonOut = NoOutput
    /\ facade = [p \in Providers |->
                    CASE p = "Binance" -> binance_new(<<97, 107>>, <<115, 107>>).value
                      [] p = "Bithumb" -> bithumb_new(<<97, 107>>, <<115, 107>>).value
                      [] p = "Okx" -> okx_new(<<97, 107>>, <<115, 107>>, <<112, 112>>).value
                      [] p = "Upbit" -> upbit_new(<<97, 107>>, <<115, 107>>).value]
    /\ newResult = NoResult
    /\ lookup = NoResult
    /\ now = ClockStart /\ uuids = 0 /\ inflight = {} /\ done = NoCall /\ started = 0
    /\ nonceLog = <<>>
    /\ symLog = <<>> /\ sigLog = <<>>

Next ==
    \/ \E req \in Reqs : BinancePlaceOrder(req)
    \/ \E req \in Reqs : BinanceCancelOrder(req)
    \/ \E param \in DirectParams, key \in DirectKeys : BinanceSendReqWithSign(param, key)
    \/ \E req \in Reqs : OkxPlaceOrder(req)
    \/ \E req \in Reqs : OkxCancelOrder(req)
    \/ \E param \in DirectParams, key \in DirectKeys : OkxSendReqWithSign(param, key)
    \/ \E req \in Reqs : UpbitPlaceOrder(req)
    \/ \E req \in Reqs : UpbitCancelOrder(req)
    \/ \E param \in DirectParams, key \in DirectKeys : UpbitSendReqWithSign(param, key)
    \/ \E req \in Reqs : BithumbPlaceOrder(req)
    \/ \E req \in Reqs : BithumbCancelOrder(req)
    \/ \E param \in DirectParams, key \in DirectKeys : BithumbSendReqWithSign(param, key)
    \/ \E c \in inflight, reply \in Replies : TransportReply(c, reply)

Spec == Init /\ [][Next]_vars

-----------------------------------------------------------------------------
(* Claims about the canonicalizer (SpecCanon) *)

Entries(m) == {m[i] : i \in DOMAIN m}

KeysOf(m) == {m[i][1] : i \in DOMAIN m}

ValueFor(m, k) == (CHOOSE e \in Entries(m) : e[1] = k)[2]

LeastKey(S) == CHOOSE k \in S : \A j \in S \ {k} : StrLess(k, j)

RECURSIVE AscendingKeys(_)
AscendingKeys(S) ==
    \* the enumeration of the keys S in strictly ascending byte order
    IF S = {} THEN <<>> ELSE <<LeastKey(S)>> \o AscendingKeys(S \ {LeastKey(S)})

RECURSIVE RenderFrom(_, _, _)
RenderFrom(m, ks, i) ==
    IF i > Len(ks) THEN <<>>
    ELSE (IF i = 1 THEN <<>> ELSE s_amp) \o ks[i] \o s_eq \o ValueFor(m, ks[i])
         \o RenderFrom(m, ks, i + 1)

ExpectedQueryString(m) == RenderFrom(m, AscendingKeys(KeysOf(m)), 1)

\* C1: get_query_string returns the entries of its argument as key=value joined
\* by '&', the keys in strictly ascending byte order and the values copied
\* byte for byte; calls on equal mappings return the identical string.
C1_CanonicalQueryString ==
    canonOut.called =>
        /\ canonOut.strA = ExpectedQueryString(canonOut.argA)
        /\ canonOut.strB = ExpectedQueryString(canonOut.argB)
        /\ Entries(canonOut.argA) = Entries(canonOut.argB) => canonOut.strA = canonOut.strB

C1_Witness ==
    /\ canonOut.called
    /\ Len(canonOut.argA) = 2
    /\ Entries(canonOut.argA) = Entries(canonOut.argB)
    /\ \E i \in DOMAIN canonOut.argA : canonOut.argA[i][2] = <<120, 38, 121, 61, 122>>
    /\ canonOut.strA = canonOut.strB

-----------------------------------------------------------------------------
(* Claims about construction and the endpoint registry (SpecNew) *)

RequiredCredentialsPresent(r) ==
    /\ r.api_key # s_empty
    /\ r.secret # s_empty
    /\ r.provider = "Okx" => r.passphrase # s_empty

\* C7: a facade is constructed successfully if and only if every credential
\* its provider requires is non-empty (api_key and secret; for OKX also the
\* passphrase).
C7_ConstructedIffCredentials ==
    newResult.called =>
        (newResult.result.ok <=> RequiredCredentialsPresent(newResult))

C7_Witness ==
    /\ newResult.called
    /\ newResult.provider = "Okx"
    /\ newResult.api_key # s_empty
    /\ newResult.secret # s_empty
    /\ newResult.passphrase = s_empty
    /\ ~newResult.result.ok
    /\ facade["Binance"].built

FirstMissingCredentialMessage(r) ==
    IF r.api_key = s_empty THEN "API key cannot be empty"
    ELSE IF r.secret = s_empty THEN "Secret cannot be empty"
    ELSE "passphrase cannout be empty"

\* C8: a failed construction returns the message that names the first missing
\* credential: "API key cannot be empty", else "Secret cannot be empty", else
\* (OKX) "passphrase cannout be empty".
C8_FirstMissingCredentialNamed ==
    (newResult.called /\ ~newResult.result.ok) =>
        newResult.result.err = FirstMissingCredentialMessage(newResult)

DocumentedEndpoint(p, key) ==
    \* the (method, path) pairs the claim documents for make_order and cancel_order
    IF p = "Binance"
    THEN <<IF key = s_make_order THEN s_POST ELSE s_DELETE,
           <<97, 112, 105, 47, 118, 51, 47, 111, 114, 100, 101, 114>> >>                \* "api/v3/order"
    ELSE IF p = "Okx"
    THEN IF key = s_make_order
         THEN <<s_POST, <<97, 112, 105, 47, 118, 53, 47, 116, 114, 97, 100, 101, 47, 111, 114, 100, 101, 114>> >>   \* "api/v5/trade/order"
         ELSE <<s_DELETE, <<97, 112, 105, 47, 118, 53, 47, 116, 114, 97, 100, 101, 47, 99, 97, 110, 99, 101, 108, 45, 111, 114, 100, 101, 114>> >>   \* "api/v5/trade/cancel-order"
    ELSE IF key = s_make_order
         THEN <<s_POST, <<118, 49, 47, 111, 114, 100, 101, 114, 115>> >>                \* "v1/orders"
         ELSE <<s_DELETE, <<118, 49, 47, 111, 114, 100, 101, 114>> >>                   \* "v1/order"

\* C9: on a constructed facade get_end_point_with_key resolves make_order and
\* cancel_order to the documented (method, path) pair of the provider.
C9_KnownOperationsResolve ==
    (lookup.called /\ lookup.key \in {s_make_order, s_cancel_order}) =>
        lookup.result = Some(DocumentedEndpoint(lookup.provider, lookup.key))

-----------------------------------------------------------------------------
(* Claims about signed calls (Spec) *)

Calls == inflight \cup (IF done.id = 0 THEN {} ELSE {done})

HandedToSender(c) == c.run.request.some

CallsOf(ps) == {c \in Calls : c.provider \in ps}

Header(c, name) == HeaderValue(c.run.request.value.headers, name)

\* C2: in every Binance call handed to the HTTP sender the signature is
\* hex(HMAC_SHA256(secret, canonical(P))) for the parameter set P given to
\* send_req_with_sign, and the body sent is P with the entry signature set
\* to that value.
C2_BinanceSignatureOverParams ==
    \A c \in CallsOf({"Binance"}) :
        HandedToSender(c) =>
            LET P == c.run.param.value
                body == c.run.request.value.body.data
                expected == HexEncode(HmacFinalize(
                                HmacNew("HMAC-SHA256", facade["Binance"].secret),
                                ExpectedQueryString(P)))
            IN  /\ BTreeHas(body, s_signature)
                /\ BTreeGet(body, s_signature) = expected
                /\ {e \in Entries(body) : e[1] # s_signature}
                       = {e \in Entries(P) : e[1] # s_signature}
                /\ KeysOf(body) = KeysOf(P) \cup {s_signature}

C2_Witness ==
    /\ \E c \in inflight :
           /\ c.provider = "Binance" /\ c.op = "place_order"
           /\ Len(c.run.request.value.body.data) = 8
    /\ done.id # 0 /\ done.provider = "Binance" /\ done.op = "send_req_with_sign"
    /\ HandedToSender(done) /\ BTreeHas(done.run.param.value, s_signature)

\* C3: in every OKX place_order or cancel_order handed to the HTTP sender the
\* OK-ACCESS-SIGN header is base64(HMAC_SHA256(secret, timestamp ++ method ++
\* path ++ "?" ++ canonical(params))), method and path being those of the
\* endpoint the request is sent to.
C3_OkxSignedMessage ==
    \A c \in CallsOf({"Okx"}) :
        (HandedToSender(c) /\ c.op \in {"place_order", "cancel_order"}) =>
            LET request == c.run.request.value
                path == SubSeq(request.url, Len(facade["Okx"].api_url) + 1, Len(request.url))
            IN  Header(c, "ok-access-sign") =
                    Some(Base64Encode(HmacFinalize(
                        HmacNew("HMAC-SHA256", facade["Okx"].secret),
                        Header(c, "ok-access-timestamp").value \o request.method \o path
                            \o s_qmark \o ExpectedQueryString(c.run.param.value))))

IsDigit(b) == b \in 48..57

\* C4: every OKX call that signs reads the clock exactly once, and the value
\* of its OK-ACCESS-TIMESTAMP header is the timestamp at the head of the
\* string signed for its OK-ACCESS-SIGN header.
C4_OkxOneTimestamp ==
    \A c \in CallsOf({"Okx"}) :
        /\ c.run.auth.some => c.run.clock_reads = 1
        /\ HandedToSender(c) =>
               LET ts == Header(c, "ok-access-timestamp").value
                   msg == Header(c, "ok-access-sign").value.base64.msg
               IN  /\ c.run.clock_reads = 1
                   /\ Len(ts) > 0
                   /\ Len(msg) > Len(ts)
                   /\ SubSeq(msg, 1, Len(ts)) = ts
                   /\ ~IsDigit(msg[Len(ts) + 1])
                   /\ \A i \in DOMAIN ts : IsDigit(ts[i])

C4_Witness ==
    \E c \in inflight :
        /\ c.provider = "Okx" /\ c.op = "cancel_order"
        /\ Header(c, "ok-access-timestamp") = Some(<<49, 48>>)      \* "10"
        /\ now = 10

\* C5: in every Upbit or Bithumb call handed to the HTTP sender the
\* Authorization header is "Bearer " and a token whose claims are exactly
\* access_key (the api_key), nonce, query_hash = hex(SHA512(canonical(params)))
\* and query_hash_alg = "SHA512", signed with HMAC-SHA512 under the secret.
C5_BearerTokenHmacSha512 ==
    \A c \in CallsOf({"Upbit", "Bithumb"}) :
        HandedToSender(c) =>
            /\ Header(c, "authorization").some
            /\ LET authorization == Header(c, "authorization").value
                   token == authorization.token
               IN  /\ authorization.scheme = "Bearer"
                   /\ KeysOf(token.claims) =
                          {s_access_key, s_nonce, s_query_hash, s_query_hash_alg}
                   /\ Len(token.claims) = 4
                   /\ BTreeGet(token.claims, s_access_key) = facade[c.provider].api_key
                   /\ BTreeGet(token.claims, s_query_hash) =
                          HexEncode(Sha512Digest(ExpectedQueryString(c.run.param.value)))
                   /\ BTreeGet(token.claims, s_query_hash_alg) = s_SHA512
                   /\ token.header.alg = "HS512"
                   /\ token.signature.mac = "HMAC-SHA512"
                   /\ token.signature.key = facade[c.provider].secret

TokenNonce(c) == NonceOf(Header(c, "authorization").value)

\* C6: across any sequence or interleaving of signed calls on Upbit and
\* Bithumb, every call draws its own nonce and no two calls carry the same
\* nonce.
C6_NoncesUnique ==
    /\ \A i, j \in DOMAIN nonceLog : i # j => nonceLog[i] # nonceLog[j]
    /\ Len(nonceLog) = uuids
    /\ \A c \in CallsOf({"Upbit", "Bithumb"}) :
           HandedToSender(c) => \E i \in DOMAIN nonceLog : nonceLog[i] = TokenNonce(c)
    /\ \A c1, c2 \in CallsOf({"Upbit", "Bithumb"}) :
           (c1.id # c2.id /\ HandedToSender(c1) /\ HandedToSender(c2))
               => TokenNonce(c1) # TokenNonce(c2)

C6_Witness ==
    /\ Len(nonceLog) = 2
    /\ \E c1, c2 \in inflight :
           /\ c1.provider = "Upbit" /\ c2.provider = "Upbit"
           /\ c1.id # c2.id
           /\ c1.op = "cancel_order" /\ c2.op = "cancel_order"
           /\ c1.req = c2.req

\* C10: a call of send_req_with_sign with an endpoint key that is not in the
\* facade's registry finds nothing under the key, returns the error
\* "Endpoint not found", and hands nothing to the HTTP sender.
C10_UnknownEndpointFails ==
    \A c \in Calls :
        (c.run.endpoint_key.some
         /\ c.run.endpoint_key.value \notin KeysOf(facade[c.provider].endpoint)) =>
            /\ c.run.base = Some(None)
            /\ c.run.result = Some(Err("Endpoint not found"))
            /\ ~HandedToSender(c)
            /\ ~c.run.panicked
            /\ c \notin inflight

C10_Witness ==
    /\ done.id # 0
    /\ done.provider = "Upbit"
    /\ done.run.endpoint_key = Some(s_coin_list)
    /\ done.run.result = Some(Err("Endpoint not found"))
    /\ \E c \in inflight : c.provider = "Binance" /\ c.run.endpoint_key = Some(s_coin_list)

-----------------------------------------------------------------------------
(* lib.rs: the Exchange trait, and the operations each facade's            *)
(* `impl Exchange for ..` block defines, with their return types           *)

Exchange ==
    { <<"place_order", "Value">>, <<"cancel_order", "Value">>,
      <<"get_order_book", "OrderBook">>, <<"get_name", "String">>,
      <<"get_current_price", "Price">>, <<"get_coin_list", "CoinList">> }

binance_impl_Exchange ==
    { <<"place_order", "Value">>, <<"cancel_order", "Value">>,
      <<"get_order_book", "OrderBook">>, <<"get_name", "String">>,
      <<"get_current_price", "Price">>, <<"get_coin_list", "CoinList">> }

bithumb_impl_Exchange ==
    { <<"place_order", "Value">>, <<"cancel_order", "Value">>,
      <<"get_order_book", "OrderBook">>, <<"get_name", "String">>,
      <<"get_current_price", "Price">>, <<"get_coin_list", "CoinList">> }

okx_impl_Exchange ==
    \* get_current_price returns the raw response; there is no get_coin_list
    { <<"place_order", "Value">>, <<"cancel_order", "Value">>,
      <<"get_order_book", "OrderBook">>, <<"get_name", "String">>,
      <<"get_current_price", "Value">> }

upbit_impl_Exchange ==
    \* there is no get_current_price and no get_coin_list
    { <<"place_order", "Value">>, <<"cancel_order", "Value">>,
      <<"get_order_book", "OrderBook">>, <<"get_name", "String">> }

impl_Exchange(p) ==
    CASE p = "Binance" -> binance_impl_Exchange
      [] p = "Bithumb" -> bithumb_impl_Exchange
      [] p = "Okx" -> okx_impl_Exchange
      [] p = "Upbit" -> upbit_impl_Exchange

-----------------------------------------------------------------------------
(* Claims about the capability set (SpecNew) *)

LogicalOperations == {s_make_order, s_cancel_order, s_order_book, s_current_price, s_coin_list}

\* C11: every constructed facade, of each of the four providers, registers an
\* endpoint for each of the five logical operations and implements every
\* operation of the Exchange trait with the trait's return type.
C11_FullCapabilitySet ==
    \A p \in Providers :
        facade[p].built =>
            /\ \A k \in LogicalOperations : BTreeHas(facade[p].endpoint, k)
            /\ \A op \in Exchange : op \in impl_Exchange(p)

-----------------------------------------------------------------------------
(* serde_json::Value: arrays and numbers.  An f64 is kept as its decimal   *)
(* expansion (integer digits, fraction digits without trailing zeros), the *)
(* value that the shortest round-trip formatting of f64 prints for the     *)
(* short decimals used as inputs here.                                     *)

s_dot == <<46>>
s_0 == <<48>>
s_0_0 == <<48, 46, 48>>
s_30 == <<51, 48>>
s_asks == <<97, 115, 107, 115>>
s_bids == <<98, 105, 100, 115>>
s_data == <<100, 97, 116, 97>>
s_markets == <<109, 97, 114, 107, 101, 116, 115>>
s_level == <<108, 101, 118, 101, 108>>
s_permissions == <<112, 101, 114, 109, 105, 115, 115, 105, 111, 110, 115>>
s_SPOT == <<83, 80, 79, 84>>
s_isDetails == <<105, 115, 68, 101, 116, 97, 105, 108, 115>>
s_false == <<102, 97, 108, 115, 101>>
s_symbols == <<115, 121, 109, 98, 111, 108, 115>>
s_baseAsset == <<98, 97, 115, 101, 65, 115, 115, 101, 116>>
s_quoteAsset == <<113, 117, 111, 116, 101, 65, 115, 115, 101, 116>>
s_orderbook_units == <<111, 114, 100, 101, 114, 98, 111, 111, 107, 95, 117, 110, 105, 116, 115>>
s_ask_price == <<97, 115, 107, 95, 112, 114, 105, 99, 101>>
s_bid_price == <<98, 105, 100, 95, 112, 114, 105, 99, 101>>
s_ask_size == <<97, 115, 107, 95, 115, 105, 122, 101>>
s_bid_size == <<98, 105, 100, 95, 115, 105, 122, 101>>
s_trade_price == <<116, 114, 97, 100, 101, 95, 112, 114, 105, 99, 101>>

RECURSIVE StripTrailingZeros(_)
StripTrailingZeros(digits) ==
    IF digits # <<>> /\ digits[Len(digits)] = 48
    THEN StripTrailingZeros(SubSeq(digits, 1, Len(digits) - 1))
    ELSE digits

f64_parse(literal) ==
    \* the f64 of a JSON number literal <digits>[.<digits>]
    LET v == Split(literal, 46) IN
    [int |-> v[1], frac |-> IF Len(v) > 1 THEN StripTrailingZeros(v[2]) ELSE <<>>]

f64_to_string(x) ==
    \* f64's Display: no fraction point when the fraction is zero
    IF x.frac = <<>> THEN x.int ELSE x.int \o s_dot \o x.frac

f64_zero == f64_parse(s_0_0)

JNum(literal) == [t |-> "number", n |-> f64_parse(literal)]
JArr(elems) == [t |-> "array", a |-> elems]

JIndexAt(v, i) ==
    \* Value's Index<usize>: Null unless v is an array that has the position
    IF v.t = "array" /\ i + 1 \in DOMAIN v.a THEN v.a[i + 1] ELSE JNull

as_array(v) == IF v.t = "array" THEN Some(v.a) ELSE None

as_f64(v) == IF v.t = "number" THEN Some(v.n) ELSE None

unwrap_or(o, default) == IF o.some THEN o.value ELSE default

Min(a, b) == IF a < b THEN a ELSE b

-----------------------------------------------------------------------------
(* lib.rs: the normalized types *)

OrderBookUnit(ask_price, bid_price, ask_size, bid_size) ==
    [ask_price |-> ask_price, bid_price |-> bid_price, ask_size |-> ask_size, bid_size |-> bid_size]

OrderBook(market, exchange, orderbook_unit) ==
    [market |-> market, exchange |-> exchange, orderbook_unit |-> orderbook_unit]

Price(exchange, symbol, price) == [exchange |-> exchange, symbol |-> symbol, price |-> price]

CoinList(market, coin_list) == [market |-> market, coin_list |-> coin_list]

-----------------------------------------------------------------------------
(* Symbol translation and order book normalizers.  A function that can     *)
(* abort on an index out of bounds or an unwrap yields None for the abort  *)
(* and Some(value) otherwise.                                              *)

okx_encode_symbol(symbol) ==
    LET v == Split(symbol, 45) IN
    IF Len(v) < 2 THEN None ELSE Some(v[1] \o s_slash \o v[2])

upbit_encode_symbol_unswapped(symbol) ==
    LET v == Split(symbol, 45) IN
    IF Len(v) < 2 THEN None ELSE Some(v[1] \o s_slash \o v[2])

upbit_encode_symbol(symbol) ==
    LET v == Split(symbol, 45) IN
    IF Len(v) < 2 THEN None ELSE Some(v[2] \o s_slash \o v[1])

bithumb_encode_symbol_unswapped(symbol) ==
    LET v == Split(symbol, 45) IN
    IF Len(v) < 2 THEN None ELSE Some(v[1] \o s_slash \o v[2])

bithumb_encode_symbol(symbol) ==
    LET v == Split(symbol, 45) IN
    IF Len(v) < 2 THEN None ELSE Some(v[2] \o s_slash \o v[1])

binance_parse_orderbook_padded(orderbook_res, symbol) ==
    LET asks == as_array(JIndex(orderbook_res, s_asks))
        bids == as_array(JIndex(orderbook_res, s_bids))
    IN  IF ~asks.some THEN Err("Asks field is not an array")
        ELSE IF ~bids.some THEN Err("Bids field is not an array")
        ELSE LET len == IF Len(asks.value) > Len(bids.value) THEN Len(asks.value) ELSE Len(bids.value)
                 ask(i) == IF i \in DOMAIN asks.value THEN asks.value[i] ELSE JNull
                 bid(i) == IF i \in DOMAIN bids.value THEN bids.value[i] ELSE JNull
             IN  Ok(OrderBook(symbol, "Binance",
                     [i \in 1..len |->
                         OrderBookUnit(
                             unwrap_or_default(as_str(JIndexAt(ask(i), 0))),
                             unwrap_or_default(as_str(JIndexAt(bid(i), 0))),
                             unwrap_or_default(as_str(JIndexAt(ask(i), 1))),
                             unwrap_or_default(as_str(JIndexAt(bid(i), 1))))]))

binance_parse_orderbook(orderbook_res, symbol) ==
    LET asks == as_array(JIndex(orderbook_res, s_asks))
        bids == as_array(JIndex(orderbook_res, s_bids))
    IN  IF ~asks.some THEN Err("Asks field is not an array")
        ELSE IF ~bids.some THEN Err("Bids field is not an array")
        ELSE LET len == Min(Len(asks.value), Len(bids.value)) IN
             Ok(OrderBook(symbol, "Binance",
                 [i \in 1..len |->
                     OrderBookUnit(
                         unwrap_or_default(as_str(JIndexAt(asks.value[i], 0))),
                         unwrap_or_default(as_str(JIndexAt(bids.value[i], 0))),
                         unwrap_or_default(as_str(JIndexAt(asks.value[i], 1))),
                         unwrap_or_default(as_str(JIndexAt(bids.value[i], 1))))]))

okx_parse_orderbook(orderbook_res, symbol) ==
    \* every level is built from one entry of data[0].bids alone
    LET bids == as_array(JIndex(JIndexAt(JIndex(orderbook_res, s_data), 0), s_bids)) IN
    IF ~bids.some THEN Err("Failed to parse orderbook bids")
    ELSE Ok(OrderBook(symbol, "Okx",
             [i \in 1..Len(bids.value) |->
                 LET unit == bids.value[i]
                     ask_price == unwrap_or_default(as_str(JIndexAt(unit, 0)))
                     ask_size == unwrap_or_default(as_str(JIndexAt(unit, 1)))
                 IN  OrderBookUnit(ask_price, ask_price, ask_size, ask_size)]))

upbit_parse_orderbook(orderbook_res) ==
    LET units == as_array(JIndex(JIndexAt(orderbook_res, 0), s_orderbook_units)) IN
    IF ~units.some THEN Some(Err("orderbook_units field is not an array"))
    ELSE LET orderbook_units ==
                 [i \in 1..Len(units.value) |->
                     LET unit == units.value[i] IN
                     OrderBookUnit(
                         f64_to_string(unwrap_or(as_f64(JIndex(unit, s_ask_price)), f64_zero)),
                         f64_to_string(unwrap_or(as_f64(JIndex(unit, s_bid_price)), f64_zero)),
                         f64_to_string(unwrap_or(as_f64(JIndex(unit, s_ask_size)), f64_zero)),
                         f64_to_string(unwrap_or(as_f64(JIndex(unit, s_bid_size)), f64_zero)))]
             symbol == upbit_encode_symbol(
                           unwrap_or_default(as_str(JIndex(JIndexAt(orderbook_res, 0), s_market))))
         IN  IF ~symbol.some THEN None
             ELSE Some(Ok(OrderBook(symbol.value, "Upbit", orderbook_units)))

bithumb_parse_orderbook(orderbook_res) ==
    LET units == as_array(JIndex(JIndexAt(orderbook_res, 0), s_orderbook_units)) IN
    IF ~units.some THEN Some(Err("orderbook_units field is not an array"))
    ELSE LET orderbook_units ==
                 [i \in 1..Len(units.value) |->
                     LET unit == units.value[i] IN
                     OrderBookUnit(
                         f64_to_string(unwrap_or(as_f64(JIndex(unit, s_ask_price)), f64_zero)),
                         f64_to_string(unwrap_or(as_f64(JIndex(unit, s_bid_price)), f64_zero)),
                         f64_to_string(unwrap_or(as_f64(JIndex(unit, s_ask_size)), f64_zero)),
                         f64_to_string(unwrap_or(as_f64(JIndex(unit, s_bid_size)), f64_zero)))]
             symbol == bithumb_encode_symbol(
                           unwrap_or_default(as_str(JIndex(JIndexAt(orderbook_res, 0), s_market))))
         IN  IF ~symbol.some THEN None
             ELSE Some(Ok(OrderBook(symbol.value, "Bithumb", orderbook_units)))

-----------------------------------------------------------------------------
(* The read operations.  Each is given as the part that runs up to the     *)
(* await of send (the operator named after the method) and the part that   *)
(* runs when the HTTP sender has answered (.._resume).                     *)

FailedToParse == "Failed to parse response: expected value at line 1 column 1"

Accept == << <<"accept", "application/json">> >>

ReadRequest_keyed(run, self, base, query_string) ==
    \* as ReadRequest, but the request also carries the api key
    Sent([run EXCEPT !.base = Some(base)],
         build_request(base.value[1],
                       self.api_url \o base.value[2] \o s_qmark \o query_string,
                       Accept \o << <<"x-mbx-apikey", self.api_key>> >>, BTreeNew))

ReadRequest(run, self, base, query_string) ==
    \* format!("{}{}?{}", ..); build_request(..)?; send(request).await
    Sent([run EXCEPT !.base = Some(base)],
         build_request(base.value[1],
                       self.api_url \o base.value[2] \o s_qmark \o query_string,
                       Accept, BTreeNew))

NotFound(run, base) == Returned([run EXCEPT !.base = Some(base)], Err("Endpoint not found"))

send_resume(run, reply) ==
    \* lib.rs send after the await: client.execute(request).await.unwrap()
    IF reply.error THEN Panicked(run) ELSE Returned(run, Ok([body |-> reply.body]))

(* binance/mod.rs *)

binance_get_order_book(self, req) ==
    LET sym == as_str(JIndex(req, s_symbol)) IN
    IF ~sym.some THEN Panicked(Run0)
    ELSE LET symbol == binance_parse_symbol(sym.value) IN
         IF ~symbol.some THEN Panicked(Run0)
         ELSE LET params == BTreeFrom(<< <<s_symbol, symbol.value>> >>)
                  query_string == get_query_string(params)
                  base == get_end_point_with_key(self, s_order_book)
              IN  IF ~base.some THEN NotFound(Run0, base)
                  ELSE ReadRequest(Run0, self, base, query_string)

binance_get_order_book_resume(run, req, reply) ==
    IF reply.error THEN Panicked(run)
    ELSE IF ~reply.body.json THEN Panicked(run)        \* from_slice(&body).unwrap()
    ELSE Returned(run, binance_parse_orderbook(reply.body.value, as_str(JIndex(req, s_symbol)).value))

binance_get_current_price(self, req) ==
    LET sym == as_str(JIndex(req, s_symbol)) IN
    IF ~sym.some THEN Panicked(Run0)
    ELSE LET symbol == binance_parse_symbol(sym.value) IN
         IF ~symbol.some THEN Panicked(Run0)
         ELSE LET params == BTreeFrom(<< <<s_symbol, symbol.value>> >>)
                  query_string == get_query_string(params)
                  base == get_end_point_with_key(self, s_current_price)
              IN  IF ~base.some THEN NotFound(Run0, base)
                  ELSE ReadRequest(Run0, self, base, query_string)

binance_get_current_price_resume(run, req, reply) ==
    IF reply.error THEN Panicked(run)
    ELSE LET res == from_slice(reply.body) IN
         IF ~res.ok THEN Returned(run, Err(res.err))
         ELSE LET symbol_name == as_str(JIndex(req, s_symbol)).value
                  current_price == unwrap_or(as_str(JIndex(res.value, s_price)), s_0_0)
              IN  Returned(println(run, res.value),
                           Ok(Price("Binance", symbol_name, current_price)))

binance_get_coin_list(self) ==
    LET params == BTreeFrom(<< <<s_permissions, s_SPOT>> >>)
        query_string == get_query_string(params)
        base == get_end_point_with_key(self, s_coin_list)
    IN  IF ~base.some THEN NotFound(Run0, base)
        ELSE ReadRequest(Run0, self, base, query_string)

binance_get_coin_list_resume(run, reply) ==
    IF reply.error THEN Panicked(run)
    ELSE IF ~reply.body.json THEN Returned(run, Err(FailedToParse))
    ELSE LET symbols == as_array(JIndex(reply.body.value, s_symbols)) IN
         IF ~symbols.some THEN Returned(run, Err("Response is not an array"))
         ELSE IF \E i \in DOMAIN symbols.value :
                     \/ ~as_str(JIndex(symbols.value[i], s_baseAsset)).some
                     \/ ~as_str(JIndex(symbols.value[i], s_quoteAsset)).some
              THEN Panicked(run)                        \* coin["baseAsset"].as_str().unwrap()
              ELSE Returned(run, Ok(CoinList("Binance",
                       [i \in DOMAIN symbols.value |->
                           as_str(JIndex(symbols.value[i], s_baseAsset)).value \o s_slash
                               \o as_str(JIndex(symbols.value[i], s_quoteAsset)).value])))

(* okx/mod.rs *)

okx_get_order_book(self, req) ==
    LET symbol == okx_parse_symbol(unwrap_or_default(as_str(JIndex(req, s_symbol)))) IN
    IF ~symbol.some THEN Panicked(Run0)
    ELSE LET params == BTreeFrom(<< <<s_instId, symbol.value>>, <<s_sz, s_30>> >>)
             base == get_end_point_with_key(self, s_order_book)
         IN  IF ~base.some THEN NotFound(Run0, base)
             ELSE ReadRequest(Run0, self, base, get_query_string(params))

okx_get_order_book_resume(run, req, reply) ==
    IF reply.error THEN Panicked(run)
    ELSE IF ~reply.body.json THEN Returned(run, Err(FailedToParse))
    ELSE Returned(run, okx_parse_orderbook(reply.body.value, as_str(JIndex(req, s_symbol)).value))

okx_get_current_price(self, req) ==
    LET symbol == okx_parse_symbol(unwrap_or_default(as_str(JIndex(req, s_symbol)))) IN
    IF ~symbol.some THEN Panicked(Run0)
    ELSE LET params == BTreeFrom(<< <<s_instId, symbol.value>>, <<s_sz, s_30>> >>)
             base == get_end_point_with_key(self, s_current_price)
         IN  IF ~base.some THEN NotFound(Run0, base)
             ELSE ReadRequest(Run0, self, base, get_query_string(params))

okx_get_current_price_resume(run, req, reply) ==
    \* the parsed response is returned as it is
    IF reply.error THEN Panicked(run)
    ELSE IF ~reply.body.json THEN Returned(run, Err(FailedToParse))
    ELSE Returned(run, Ok(reply.body.value))

(* upbit/mod.rs *)

upbit_get_order_book(self, req) ==
    LET sym == as_str(JIndex(req, s_symbol)) IN
    IF ~sym.some THEN Panicked(Run0)
    ELSE LET symbol == upbit_parse_symbol(sym.value) IN
         IF ~symbol.some THEN Panicked(Run0)
         ELSE LET params == BTreeFrom(<< <<s_markets, symbol.value>>, <<s_level, s_0>> >>)
                  query_string == get_query_string(params)
                  base == get_end_point_with_key(self, s_order_book)
              IN  IF ~base.some THEN NotFound(Run0, base)
                  ELSE ReadRequest(Run0, self, base, query_string)

upbit_get_order_book_resume(run, req, reply) ==
    IF reply.error THEN Panicked(run)
    ELSE IF ~reply.body.json THEN Panicked(run)        \* from_slice(&body).unwrap()
    ELSE LET book == upbit_parse_orderbook(reply.body.value) IN
         IF ~book.some THEN Panicked(run) ELSE Returned(run, book.value)

(* bithumb/mod.rs *)

bithumb_get_order_book(self, req) ==
    LET sym == as_str(JIndex(req, s_symbol)) IN
    IF ~sym.some THEN Panicked(Run0)
    ELSE LET symbol == bithumb_parse_symbol(sym.value) IN
         IF ~symbol.some THEN Panicked(Run0)
         ELSE LET params == BTreeFrom(<< <<s_markets, symbol.value>> >>)
                  query_string == get_query_string(params)
                  base == get_end_point_with_key(self, s_order_book)
              IN  IF ~base.some THEN NotFound(Run0, base)
                  ELSE ReadRequest(Run0, self, base, query_string)

bithumb_get_order_book_resume(run, req, reply) ==
    IF reply.error THEN Panicked(run)
    ELSE IF ~reply.body.json THEN Panicked(run)        \* from_slice(&body).unwrap()
    ELSE LET book == bithumb_parse_orderbook(reply.body.value) IN
         IF ~book.some THEN Panicked(run) ELSE Returned(run, book.value)

bithumb_get_current_price(self, req) ==
    LET sym == as_str(JIndex(req, s_symbol)) IN
    IF ~sym.some THEN Panicked(Run0)
    ELSE LET symbol == bithumb_parse_symbol(sym.value) IN
         IF ~symbol.some THEN Panicked(Run0)
         ELSE LET params == BTreeFrom(<< <<s_markets, symbol.value>> >>)
                  query_string == get_query_string(params)
                  base == get_end_point_with_key(self, s_current_price)
              IN  IF ~base.some THEN NotFound(Run0, base)
                  ELSE ReadRequest(Run0, self, base, query_string)

bithumb_get_current_price_resume(run, req, reply) ==
    IF reply.error THEN Panicked(run)
    ELSE IF ~reply.body.json THEN Returned(run, Err(FailedToParse))
    ELSE LET symbol_name == as_str(JIndex(req, s_symbol)).value
             current_price ==
                 f64_to_string(unwrap_or(
                     as_f64(JIndex(JIndexAt(reply.body.value, 0), s_trade_price)), f64_zero))
         IN  Returned(run, Ok(Price("Bithumb", symbol_name, current_price)))

bithumb_get_coin_list(self) ==
    LET params == BTreeFrom(<< <<s_isDetails, s_false>> >>)
        query_string == get_query_string(params)
        base == get_end_point_with_key(self, s_coin_list)
    IN  IF ~base.some THEN NotFound(Run0, base)
        ELSE ReadRequest(Run0, self, base, query_string)

RECURSIVE SelectMarkets(_)
SelectMarkets(coins) ==
    \* filter_map(|coin| coin["market"].as_str()): entries without a market string are skipped
    IF coins = <<>> THEN <<>>
    ELSE LET market == as_str(JIndex(Head(coins), s_market)) IN
         (IF market.some THEN <<market.value>> ELSE <<>>) \o SelectMarkets(Tail(coins))

bithumb_get_coin_list_resume(run, reply) ==
    IF reply.error THEN Panicked(run)
    ELSE IF ~reply.body.json THEN Returned(run, Err(FailedToParse))
    ELSE LET coins == as_array(reply.body.value) IN
         IF ~coins.some THEN Returned(run, Err("Response is not an array"))
         ELSE LET markets == SelectMarkets(coins.value) IN
              IF \E i \in DOMAIN markets : ~bithumb_encode_symbol(markets[i]).some
              THEN Panicked(run)                        \* v[1] in encode_symbol
              ELSE Returned(run, Ok(CoinList("Bithumb",
                       [i \in DOMAIN markets |-> bithumb_encode_symbol(markets[i]).value])))

-----------------------------------------------------------------------------
(* The read specification: the four facades exist; the read operations and *)
(* send are called in any order and the HTTP sender answers the calls in   *)
(* flight in any order, with a network error, a body that is not JSON or   *)
(* one of a few provider responses.                                        *)

NetworkError == [error |-> TRUE]
NotJson == [error |-> FALSE, body |-> [json |-> FALSE]]
Json(v) == [error |-> FALSE, body |-> [json |-> TRUE, value |-> v]]

Level(price, size) == JArr(<<JStr(price), JStr(size)>>)

Ask1 == Level(<<49, 48, 49, 46, 53, 48>>, <<49>>)
Ask2 == Level(<<49, 48, 50>>, <<50>>)
Ask3 == Level(<<49, 48, 51>>, <<51>>)
Bid1 == Level(<<57, 57, 46, 49, 48>>, <<52>>)
Bid2 == Level(<<57, 56>>, <<53>>)
ShortLevel == JArr(<<JStr(<<49, 48, 49, 46, 53, 48>>)>>)      \* ["101.50"]: a level without size
NumberLevel == JArr(<<JNum(<<49, 48, 49, 46, 53, 48>>), JNum(<<49>>)>>)

Depth(asks, bids) == JObj(BTreeFrom(<< <<s_asks, JArr(asks)>>, <<s_bids, JArr(bids)>> >>))

BinanceBooks ==
    { Depth(<<Ask1, Ask2, Ask3>>, <<Bid1, Bid2>>),
      Depth(<<Ask1>>, <<Bid1, Bid2>>),
      Depth(<<NumberLevel>>, <<Bid1>>),
      Depth(<<ShortLevel>>, <<Bid1>>),
      JObj(BTreeNew) }

OkxBooks ==
    { JObj(BTreeFrom(<< <<s_data, JArr(<<Depth(<<Ask1, Ask2, Ask3>>, <<Bid1, Bid2>>)>>)>> >>)),
      JObj(BTreeFrom(<< <<s_data, JArr(<<Depth(<<Ask1>>, <<Bid1, Bid2>>)>>)>> >>)),
      JObj(BTreeNew) }

Unit(ask_price, bid_price, ask_size, bid_size) ==
    JObj(BTreeFrom(<< <<s_ask_price, ask_price>>, <<s_bid_price, bid_price>>,
                      <<s_ask_size, ask_size>>, <<s_bid_size, bid_size>> >>))

NumberUnit1 == Unit(JNum(<<49, 48, 49, 46, 53, 48>>), JNum(<<57, 57, 46, 49, 48>>), JNum(<<49>>), JNum(<<52>>))
NumberUnit2 == Unit(JNum(<<49, 48, 50>>), JNum(<<57, 56>>), JNum(<<50>>), JNum(<<53>>))
StringUnit == Unit(JStr(<<49, 48, 49, 46, 53, 48>>), JStr(<<57, 57, 46, 49, 48>>), JStr(<<49>>), JStr(<<52>>))

Units(market, units) ==
    JArr(<< JObj(BTreeFrom(<< <<s_market, JStr(market)>>, <<s_orderbook_units, JArr(units)>> >>)) >>)

UnitBooks ==
    { Units(<<75, 82, 87, 45, 66, 84, 67>>, <<NumberUnit1, NumberUnit2>>),
      Units(<<75, 82, 87, 45, 66, 84, 67>>, <<StringUnit>>),
      JArr(<< JObj(BTreeFrom(<< <<s_orderbook_units, JArr(<<NumberUnit1>>)>> >>)) >>),   \* no market
      JObj(BTreeNew) }

Prices ==
    { JObj(BTreeFrom(<< <<s_price, JStr(<<54, 53, 48, 48, 48, 46, 53, 48>>)>> >>)),                        \* {"price":"65000.50"}
      JObj(BTreeFrom(<< <<s_price, JNum(<<54, 53, 48, 48, 48, 46, 53, 48>>)>> >>)),                        \* {"price":65000.50}
      JArr(<< JObj(BTreeFrom(<< <<s_trade_price, JNum(<<54, 53, 48, 48, 48, 46, 53, 48>>)>> >>)) >>),      \* [{"trade_price":65000.50}]
      JArr(<< JObj(BTreeFrom(<< <<s_trade_price, JStr(<<54, 53, 48, 48, 48, 46, 53, 48>>)>> >>)) >>),      \* [{"trade_price":"65000.50"}]
      JObj(BTreeNew) }

Asset(base, quote) == JObj(BTreeFrom(<< <<s_baseAsset, JStr(base)>>, <<s_quoteAsset, JStr(quote)>> >>))

BinanceCoins ==
    { JObj(BTreeFrom(<< <<s_symbols, JArr(<<Asset(<<66, 84, 67>>, <<85, 83, 68, 84>>), Asset(<<69, 84, 72>>, <<66, 84, 67>>)>>)>> >>)),
      JObj(BTreeFrom(<< <<s_symbols, JArr(<<JObj(BTreeFrom(<< <<s_baseAsset, JStr(<<66, 84, 67>>)>> >>))>>)>> >>)),
      JObj(BTreeNew) }

Market(market) == JObj(BTreeFrom(<< <<s_market, JStr(market)>> >>))

BithumbCoins ==
    { JArr(<<Market(<<75, 82, 87, 45, 66, 84, 67>>), Market(<<75, 82, 87, 45, 69, 84, 72>>)>>),
      JArr(<<Market(<<75, 82, 87, 45, 66, 84, 67>>), JObj(BTreeNew)>>),
      JArr(<<Market(<<75, 82, 87, 66, 84, 67>>)>>),
      JObj(BTreeNew) }

ResponsesTo(c) ==
    CASE c.op = "get_order_book" /\ c.provider = "Binance" -> BinanceBooks
      [] c.op = "get_order_book" /\ c.provider = "Okx" -> OkxBooks
      [] c.op = "get_order_book" /\ c.provider \in {"Upbit", "Bithumb"} -> UnitBooks
      [] c.op = "get_current_price" -> Prices
      [] c.op = "get_coin_list" /\ c.provider = "Binance" -> BinanceCoins
      [] c.op = "get_coin_list" /\ c.provider = "Bithumb" -> BithumbCoins
      [] OTHER -> {JObj(BTreeNew)}

RepliesTo(c) == {NetworkError, NotJson} \cup {Json(v) : v \in ResponsesTo(c)}

ContentTypes ==
    { <<>>,
      << <<"content-type", "application/json">> >>,
      << <<"content-type", "application/x-www-form-urlencoded">> >>,
      << <<"content-type", "text/plain">> >>,
      << <<"accept", "application/json">>, <<"content-type", "multipart/form-data">> >> }

SendUri == <<104, 116, 116, 112, 115, 58, 47, 47, 97, 112, 105, 49, 46, 98, 105, 110, 97, 110, 99, 101, 46, 99, 111, 109, 47, 97, 112, 105, 47, 118, 51, 47, 111, 114, 100, 101, 114>>

SendRequests ==
    { build_request(s_POST, SendUri, headers, body).value :
          headers \in ContentTypes, body \in DirectParams }

send(req) ==
    \* lib.rs send, up to the await of client.execute
    LET wire == send_begin(req) IN
    IF ~wire.ok THEN Returned(Run0, Err(wire.err))
    ELSE [Run0 EXCEPT !.request = Some(wire.value)]

Resume(c, reply) ==
    CASE c.op = "send" -> send_resume(c.run, reply)
      [] c.provider = "Binance" /\ c.op = "get_order_book" ->
             binance_get_order_book_resume(c.run, c.req.value, reply)
      [] c.provider = "Binance" /\ c.op = "get_current_price" ->
             binance_get_current_price_resume(c.run, c.req.value, reply)
      [] c.provider = "Binance" /\ c.op = "get_coin_list" ->
             binance_get_coin_list_resume(c.run, reply)
      [] c.provider = "Okx" /\ c.op = "get_order_book" ->
             okx_get_order_book_resume(c.run, c.req.value, reply)
      [] c.provider = "Okx" /\ c.op = "get_current_price" ->
             okx_get_current_price_resume(c.run, c.req.value, reply)
      [] c.provider = "Upbit" /\ c.op = "get_order_book" ->
             upbit_get_order_book_resume(c.run, c.req.value, reply)
      [] c.provider = "Bithumb" /\ c.op = "get_order_book" ->
             bithumb_get_order_book_resume(c.run, c.req.value, reply)
      [] c.provider = "Bithumb" /\ c.op = "get_current_price" ->
             bithumb_get_current_price_resume(c.run, c.req.value, reply)
      [] c.provider = "Bithumb" /\ c.op = "get_coin_list" ->
             bithumb_get_coin_list_resume(c.run, reply)

BinanceGetOrderBook(req) ==
    /\ started < MaxCalls
    /\ Begin("Binance", "get_order_book", Some(req),
             binance_get_order_book(facade["Binance"], req), now)

BinanceGetCurrentPrice(req) ==
    /\ started < MaxCalls
    /\ Begin("Binance", "get_current_price", Some(req),
             binance_get_current_price(facade["Binance"], req), now)

BinanceGetCoinList ==
    /\ started < MaxCalls
    /\ Begin("Binance", "get_coin_list", None, binance_get_coin_list(facade["Binance"]), now)

OkxGetOrderBook(req) ==
    /\ started < MaxCalls
    /\ Begin("Okx", "get_order_book", Some(req), okx_get_order_book(facade["Okx"], req), now)

OkxGetCurrentPrice(req) ==
    /\ started < MaxCalls
    /\ Begin("Okx", "get_current_price", Some(req),
             okx_get_current_price(facade["Okx"], req), now)

UpbitGetOrderBook(req) ==
    /\ started < MaxCalls
    /\ Begin("Upbit", "get_order_book", Some(req),
             upbit_get_order_book(facade["Upbit"], req), now)

BithumbGetOrderBook(req) ==
    /\ started < MaxCalls
    /\ Begin("Bithumb", "get_order_book", Some(req),
             bithumb_get_order_book(facade["Bithumb"], req), now)

BithumbGetCurrentPrice(req) ==
    /\ started < MaxCalls
    /\ Begin("Bithumb", "get_current_price", Some(req),
             bithumb_get_current_price(facade["Bithumb"], req), now)

BithumbGetCoinList ==
    /\ started < MaxCalls
    /\ Begin("Bithumb", "get_coin_list", None, bithumb_get_coin_list(facade["Bithumb"]), now)

Send(req) ==
    /\ started < MaxCalls
    /\ Begin("lib", "send", Some(req), send(req), now)

ReadReply(c, reply) ==
    /\ c \in inflight
    /\ inflight' = inflight \ {c}
    /\ done' = [c EXCEPT !.run = Resume(c, reply), !.reply = Some(reply)]
    /\ UNCHANGED <<now, uuids, started, nonceLog, canonVars, newVars, symVars>>

ReadInit ==
    /\ mapA = BTreeNew /\ mapB = BTreeNew /\ canonOut = NoOutput
    /\ facade = [p \in Providers |->
                    CASE p = "Binance" -> binance_new(<<97, 107>>, <<115, 107>>).value
                      [] p = "Bithumb" -> bithumb_new(<<97, 107>>, <<115, 107>>).value
                      [] p = "Okx" -> okx_new(<<97, 107>>, <<115, 107>>, <<112, 112>>).value
                      [] p = "Upbit" -> upbit_new(<<97, 107>>, <<115, 107>>).value]
    /\ newResult = NoResult
    /\ lookup = NoResult
    /\ now = ClockStart /\ uuids = 0 /\ inflight = {} /\ done = NoCall /\ started = 0
    /\ nonceLog = <<>>
    /\ symLog = <<>> /\ sigLog = <<>>

ReadNext ==
    \/ \E req \in Reqs : BinanceGetOrderBook(req)
    \/ \E req \in Reqs : BinanceGetCurrentPrice(req)
    \/ BinanceGetCoinList
    \/ \E req \in Reqs : OkxGetOrderBook(req)
    \/ \E req \in Reqs : OkxGetCurrentPrice(req)
    \/ \E req \in Reqs : UpbitGetOrderBook(req)
    \/ \E req \in Reqs : BithumbGetOrderBook(req)
    \/ \E req \in Reqs : BithumbGetCurrentPrice(req)
    \/ BithumbGetCoinList
    \/ \E req \in SendRequests : Send(req)
    \/ \E c \in inflight : \E reply \in RepliesTo(c) : ReadReply(c, reply)

SpecRead == ReadInit /\ [][ReadNext]_vars

-----------------------------------------------------------------------------
(* Claims about send and the read operations (SpecRead) *)

Answered(c) == c.reply.some /\ ~c.reply.value.error /\ c.reply.value.body.json

Response(c) == c.reply.value.body.value

Succeeded(c) == ~c.run.panicked /\ c.run.result.some /\ c.run.result.value.ok

Normalized(c) == c.run.result.value.value

RawLevels(book, side) ==
    LET a == as_array(JIndex(book, side)) IN IF a.some THEN a.value ELSE <<>>

Carries(field, raw) == raw.t = "string" => field = raw.s

\* C13: Binance get_order_book, answered with a asks and b bids, returns
\* min(a, b) levels, and level i has the price and size strings of the i-th
\* ask and of the i-th bid of the response.
C13_BinanceBookPairsByIndex ==
    \A c \in Calls :
        (/\ c.provider = "Binance" /\ c.op = "get_order_book" /\ Answered(c)
         /\ as_array(JIndex(Response(c), s_asks)).some
         /\ as_array(JIndex(Response(c), s_bids)).some) =>
            LET asks == RawLevels(Response(c), s_asks)
                bids == RawLevels(Response(c), s_bids)
            IN  /\ Succeeded(c)
                /\ Len(Normalized(c).orderbook_unit) = Min(Len(asks), Len(bids))
                /\ \A i \in DOMAIN Normalized(c).orderbook_unit :
                       LET unit == Normalized(c).orderbook_unit[i] IN
                       /\ Carries(unit.ask_price, JIndexAt(asks[i], 0))
                       /\ Carries(unit.ask_size, JIndexAt(asks[i], 1))
                       /\ Carries(unit.bid_price, JIndexAt(bids[i], 0))
                       /\ Carries(unit.bid_size, JIndexAt(bids[i], 1))

C13_Witness ==
    /\ done.id # 0 /\ done.provider = "Binance" /\ done.op = "get_order_book"
    /\ Answered(done)
    /\ Len(RawLevels(Response(done), s_asks)) = 3
    /\ Len(RawLevels(Response(done), s_bids)) = 2
    /\ Succeeded(done)
    /\ Len(Normalized(done).orderbook_unit) = 2
    /\ Normalized(done).orderbook_unit[2].ask_price = <<49, 48, 50>>
    /\ Normalized(done).orderbook_unit[2].bid_size = <<53>>

\* C14: OKX get_order_book returns min(len(asks), len(bids)) levels whose ask
\* price and size are those of the response's asks and whose bid price and
\* size are those of the response's bids.
C14_OkxBookSidesIndependent ==
    \A c \in Calls :
        (/\ c.provider = "Okx" /\ c.op = "get_order_book" /\ Answered(c)
         /\ as_array(JIndex(JIndexAt(JIndex(Response(c), s_data), 0), s_asks)).some
         /\ as_array(JIndex(JIndexAt(JIndex(Response(c), s_data), 0), s_bids)).some) =>
            LET asks == RawLevels(JIndexAt(JIndex(Response(c), s_data), 0), s_asks)
                bids == RawLevels(JIndexAt(JIndex(Response(c), s_data), 0), s_bids)
            IN  /\ Succeeded(c)
                /\ Len(Normalized(c).orderbook_unit) = Min(Len(asks), Len(bids))
                /\ \A i \in 1..Min(Len(asks), Len(bids)) :
                       LET unit == Normalized(c).orderbook_unit[i] IN
                       /\ Carries(unit.ask_price, JIndexAt(asks[i], 0))
                       /\ Carries(unit.ask_size, JIndexAt(asks[i], 1))
                       /\ Carries(unit.bid_price, JIndexAt(bids[i], 0))
                       /\ Carries(unit.bid_size, JIndexAt(bids[i], 1))

ProviderPrice(p, res) ==
    \* where the response carries the price
    IF p = "Bithumb" THEN JIndex(JIndexAt(res, 0), s_trade_price) ELSE JIndex(res, s_price)

\* C15: get_current_price, for a request with symbol S and a response that
\* carries the price as the string p, returns
\* Price{exchange: the provider's name, symbol: S, price: p}.
C15_CurrentPriceUnchanged ==
    \A c \in Calls :
        (/\ c.op = "get_current_price" /\ Answered(c)
         /\ ProviderPrice(c.provider, Response(c)).t = "string") =>
            /\ ~c.run.panicked
            /\ c.run.result =
                   Some(Ok(Price(facade[c.provider].name,
                                 as_str(JIndex(c.req.value, s_symbol)).value,
                                 ProviderPrice(c.provider, Response(c)).s)))

NormalizedPairs(c) ==
    \* every raw price or size of the response with the normalized string made from it
    CASE c.op = "get_current_price" /\ c.provider \in {"Binance", "Bithumb"} ->
             { <<ProviderPrice(c.provider, Response(c)), Normalized(c).price>> }
      [] c.op = "get_order_book" /\ c.provider \in {"Binance", "Okx"} ->
             LET book == IF c.provider = "Binance" THEN Response(c)
                         ELSE JIndexAt(JIndex(Response(c), s_data), 0)
                 asks == RawLevels(book, s_asks)
                 bids == RawLevels(book, s_bids)
                 units == Normalized(c).orderbook_unit
             IN  UNION { { <<JIndexAt(asks[i], 0), units[i].ask_price>>,
                           <<JIndexAt(asks[i], 1), units[i].ask_size>>,
                           <<JIndexAt(bids[i], 0), units[i].bid_price>>,
                           <<JIndexAt(bids[i], 1), units[i].bid_size>> } :
                         i \in (DOMAIN units) \cap (DOMAIN asks) \cap (DOMAIN bids) }
      [] c.op = "get_order_book" /\ c.provider \in {"Upbit", "Bithumb"} ->
             LET raw == RawLevels(JIndexAt(Response(c), 0), s_orderbook_units)
                 units == Normalized(c).orderbook_unit
             IN  UNION { { <<JIndex(raw[i], s_ask_price), units[i].ask_price>>,
                           <<JIndex(raw[i], s_ask_size), units[i].ask_size>>,
                           <<JIndex(raw[i], s_bid_price), units[i].bid_price>>,
                           <<JIndex(raw[i], s_bid_size), units[i].bid_size>> } :
                         i \in (DOMAIN units) \cap (DOMAIN raw) }
      [] OTHER -> {}

\* C16: every order book and price normalizer copies a price or size that the
\* response gives as a JSON string into the normalized value unchanged.
C16_StringsCopiedUnchanged ==
    \A c \in Calls :
        (Answered(c) /\ Succeeded(c)) =>
            \A pair \in NormalizedPairs(c) : Carries(pair[2], pair[1])

-----------------------------------------------------------------------------
(* The symbol specification: parse_symbol and encode_symbol of one         *)
(* provider are applied to canonical symbols, native symbols and strings   *)
(* without a separator; symLog keeps each call's input and output.         *)

MaxSymbolCalls == 2     \* calls of parse_symbol and encode_symbol in one behaviour

Assets == {<<66, 84, 67>>, <<85, 83, 68>>, <<66, 84>>, <<67, 85, 83, 68>>}

CanonicalSymbols == {base \o s_slash \o quote : base \in Assets, quote \in Assets} \ {a \o s_slash \o a : a \in Assets}

NativeSymbols == {x \o s_dash \o y : x \in Assets, y \in Assets} \ {a \o s_dash \o a : a \in Assets}

NoSeparator == {<<66, 84, 67, 85, 83, 68>>}

parse_symbol(p, symbol) ==
    CASE p = "Binance" -> binance_parse_symbol(symbol)
      [] p = "Okx" -> okx_parse_symbol(symbol)
      [] p = "Upbit" -> upbit_parse_symbol(symbol)
      [] p = "Bithumb" -> bithumb_parse_symbol(symbol)

encode_symbol(p, symbol) ==
    CASE p = "Okx" -> okx_encode_symbol(symbol)
      [] p = "Upbit" -> upbit_encode_symbol(symbol)
      [] p = "Bithumb" -> bithumb_encode_symbol(symbol)

encode_symbol_stdout(p, symbol) ==
    \* okx/mod.rs encode_symbol begins with println!("{}", symbol)
    IF p = "Okx" THEN <<symbol>> ELSE <<>>

SameModule(p) == IF symLog = <<>> THEN TRUE ELSE symLog[1].provider = p

ParseSymbol(p, symbol) ==
    /\ Len(symLog) < MaxSymbolCalls
    /\ SameModule(p)
    /\ symLog' = Append(symLog, [provider |-> p, fn |-> "parse_symbol",
                                 input |-> symbol, output |-> parse_symbol(p, symbol),
                                 stdout |-> <<>>])
    /\ UNCHANGED <<canonVars, newVars, callVars, sigLog>>

EncodeSymbol(p, symbol) ==
    /\ Len(symLog) < MaxSymbolCalls
    /\ SameModule(p)
    /\ symLog' = Append(symLog, [provider |-> p, fn |-> "encode_symbol",
                                 input |-> symbol, output |-> encode_symbol(p, symbol),
                                 stdout |-> encode_symbol_stdout(p, symbol)])
    /\ UNCHANGED <<canonVars, newVars, callVars, sigLog>>

SymbolInit ==
    /\ mapA = BTreeNew /\ mapB = BTreeNew /\ canonOut = NoOutput
    /\ facade = [p \in Providers |-> NoFacade]
    /\ newResult = NoResult
    /\ lookup = NoResult
    /\ now = ClockStart /\ uuids = 0 /\ inflight = {} /\ done = NoCall /\ started = 0
    /\ nonceLog = <<>>
    /\ symLog = <<>> /\ sigLog = <<>>

SymbolNext ==
    \/ \E p \in Providers, symbol \in CanonicalSymbols \cup NoSeparator : ParseSymbol(p, symbol)
    \/ \E p \in {"Okx", "Upbit", "Bithumb"}, symbol \in NativeSymbols \cup NoSeparator :
           EncodeSymbol(p, symbol)

SpecSymbol == SymbolInit /\ [][SymbolNext]_vars

-----------------------------------------------------------------------------
(* Claims about symbol translation (SpecSymbol) *)

Dashed == {"Okx", "Upbit", "Bithumb"}

\* C17: for Upbit, Bithumb and OKX, encode_symbol applied to the result of
\* parse_symbol on a canonical BASE/QUOTE symbol gives that symbol back, and
\* parse_symbol applied to the result of encode_symbol on a native
\* dash-separated symbol gives that symbol back.
C17_SymbolRoundTrip ==
    \A i \in 1..(Len(symLog) - 1) :
        LET first == symLog[i]
            second == symLog[i + 1]
        IN  /\ (/\ first.provider \in Dashed
                /\ first.fn = "parse_symbol" /\ first.input \in CanonicalSymbols
                /\ second.fn = "encode_symbol" /\ first.output = Some(second.input)) =>
                   second.output = Some(first.input)
            /\ (/\ first.provider \in Dashed
                /\ first.fn = "encode_symbol" /\ first.input \in NativeSymbols
                /\ second.fn = "parse_symbol" /\ first.output = Some(second.input)) =>
                   second.output = Some(first.input)
            /\ (first.provider \in Dashed /\ first.fn = "parse_symbol"
                    /\ first.input \in CanonicalSymbols) => first.output.some
            /\ (first.provider \in Dashed /\ first.fn = "encode_symbol"
                    /\ first.input \in NativeSymbols) => first.output.some

C17_Witness ==
    /\ Len(symLog) = 2
    /\ symLog[1] = [provider |-> "Upbit", fn |-> "parse_symbol",
                    input |-> <<66, 84, 67, 47, 85, 83, 68>>, output |-> Some(<<85, 83, 68, 45, 66, 84, 67>>),
                    stdout |-> <<>>]
    /\ symLog[2] = [provider |-> "Upbit", fn |-> "encode_symbol",
                    input |-> <<85, 83, 68, 45, 66, 84, 67>>, output |-> Some(<<66, 84, 67, 47, 85, 83, 68>>),
                    stdout |-> <<>>]

\* C18: Binance parse_symbol maps two different canonical BASE/QUOTE symbols
\* to two different native symbols, so that the canonical symbol can be
\* recovered from the native one.
C18_BinanceSymbolInjective ==
    \A i, j \in DOMAIN symLog :
        (/\ symLog[i].provider = "Binance" /\ symLog[j].provider = "Binance"
         /\ symLog[i].fn = "parse_symbol" /\ symLog[j].fn = "parse_symbol"
         /\ symLog[i].input \in CanonicalSymbols /\ symLog[j].input \in CanonicalSymbols
         /\ symLog[i].output = symLog[j].output) =>
            symLog[i].input = symLog[j].input

-----------------------------------------------------------------------------
(* Claims about the stages of a call and transport failures *)

Finished(c) == c \notin inflight

\* C19: every finished facade call has returned a value: a call whose
\* endpoint lookup failed returns "Endpoint not found" with nothing sent, a
\* call answered with a body that is not JSON returns the parse error
\* unchanged, only a call handed to the HTTP sender is answered, and no stage
\* failure ends the call without a returned error.
C19_FirstFailureReturned ==
    \A c \in Calls :
        Finished(c) =>
            /\ ~c.run.panicked
            /\ c.run.result.some
            /\ c.run.base = Some(None) =>
                   (c.run.result = Some(Err("Endpoint not found")) /\ ~HandedToSender(c))
            /\ c.reply.some => HandedToSender(c)
            /\ (c.reply.some /\ c.op # "send" /\ ~c.reply.value.error /\ ~c.reply.value.body.json) =>
                   c.run.result = Some(from_slice(c.reply.value.body))

\* C20: a call whose HTTP transport failed with a network error or a timeout
\* returns an error value to its caller; it does not abort.
C20_TransportFailureReturned ==
    \A c \in Calls :
        (c.reply.some /\ c.reply.value.error) =>
            /\ ~c.run.panicked
            /\ c.run.result.some
            /\ ~c.run.result.value.ok

-----------------------------------------------------------------------------
(* Claims about malformed payloads and responses (SpecRead) *)

CoinEntries(c) ==
    \* the entries of a coin list response: symbols of Binance, the array of Bithumb
    unwrap_or(as_array(IF c.provider = "Binance" THEN JIndex(Response(c), s_symbols)
                       ELSE Response(c)), <<>>)

SymbolMalformed(req) ==
    \* the symbol is missing, is not a string, or has no '/'
    \/ ~as_str(JIndex(req, s_symbol)).some
    \/ Len(Split(as_str(JIndex(req, s_symbol)).value, 47)) < 2

\* C21: a facade operation called with a payload whose symbol is missing, is
\* not a string or has no '/' returns an error value and hands nothing to the
\* HTTP sender; it does not abort.
C21_MalformedSymbolRejected ==
    \A c \in Calls :
        (c.op # "send" /\ c.req.some /\ SymbolMalformed(c.req.value)) =>
            /\ ~c.run.panicked
            /\ ~HandedToSender(c)
            /\ c.run.result.some
            /\ ~c.run.result.value.ok

\* C22: an order book or coin list operation whose response is not JSON, or
\* lacks a required field, returns an error value: it does not abort, a
\* successful result holds no price or size that the response did not give,
\* and a successful coin list has a symbol for every entry of the response.
C22_MalformedResponseRejected ==
    \A c \in Calls :
        (c.op \in {"get_order_book", "get_coin_list"} /\ c.reply.some /\ ~c.reply.value.error) =>
            /\ ~c.run.panicked
            /\ c.run.result.some
            /\ ~c.reply.value.body.json => ~c.run.result.value.ok
            /\ Succeeded(c) =>
                   \A pair \in NormalizedPairs(c) : pair[1].t \in {"string", "number"}
            /\ (Succeeded(c) /\ c.op = "get_coin_list") =>
                   Len(Normalized(c).coin_list) = Len(CoinEntries(c))

ZeroPrices == {s_0_0, s_0}

\* C23: get_current_price answered with JSON that has no price field succeeds
\* with a zero price, and no other normalizer puts a default in the place of
\* a field that the response lacks.
C23_OnlyPriceDefaults ==
    \A c \in Calls :
        /\ (/\ c.op = "get_current_price" /\ c.provider \in {"Binance", "Bithumb"} /\ Answered(c)
            /\ ProviderPrice(c.provider, Response(c)).t = "null") =>
               (Succeeded(c) /\ Normalized(c).price \in ZeroPrices)
        /\ (c.op = "get_order_book" /\ Answered(c) /\ Succeeded(c)) =>
               \A pair \in NormalizedPairs(c) : pair[1].t # "null"

-----------------------------------------------------------------------------
(* Claims about output and shared state *)

\* C25: no facade operation and no symbol function writes to standard output
\* during a call: a finished or running call has printed nothing.
C25_NothingPrinted ==
    /\ \A c \in Calls : c.run.stdout = <<>>
    /\ \A i \in DOMAIN symLog : symLog[i].stdout = <<>>

Constructed(p) ==
    \* the instance that new returns for the credentials of Init
    CASE p = "Binance" -> binance_new(<<97, 107>>, <<115, 107>>).value
      [] p = "Bithumb" -> bithumb_new(<<97, 107>>, <<115, 107>>).value
      [] p = "Okx" -> okx_new(<<97, 107>>, <<115, 107>>, <<112, 112>>).value
      [] p = "Upbit" -> upbit_new(<<97, 107>>, <<115, 107>>).value

OwnDraws(p) ==
    \* a reading of the clock (Binance, OKX) or the index of a nonce draw (Upbit, Bithumb)
    IF p \in {"Binance", "Okx"} THEN ClockStart..MaxClock ELSE 1..MaxCalls

OwnRun(p, op, req, x) ==
    \* the call up to its await, from the instance, its payload and its own draw
    CASE p = "Binance" /\ op = "place_order" -> binance_place_order(Constructed(p), req, x)
      [] p = "Binance" /\ op = "cancel_order" -> binance_cancel_order(Constructed(p), req, x)
      [] p = "Okx" /\ op = "place_order" -> okx_place_order(Constructed(p), req, x)
      [] p = "Okx" /\ op = "cancel_order" -> okx_cancel_order(Constructed(p), req, x)
      [] p = "Upbit" /\ op = "place_order" -> upbit_place_order(Constructed(p), req, x)
      [] p = "Upbit" /\ op = "cancel_order" -> upbit_cancel_order(Constructed(p), req, x)
      [] p = "Bithumb" /\ op = "place_order" -> bithumb_place_order(Constructed(p), req, x)
      [] p = "Bithumb" /\ op = "cancel_order" -> bithumb_cancel_order(Constructed(p), req, x)

-----------------------------------------------------------------------------
(* Claims about the coin list (SpecRead) *)

EntryWellFormed(p, entry) ==
    IF p = "Binance"
    THEN as_str(JIndex(entry, s_baseAsset)).some /\ as_str(JIndex(entry, s_quoteAsset)).some
    ELSE /\ as_str(JIndex(entry, s_market)).some
         /\ Len(Split(as_str(JIndex(entry, s_market)).value, 45)) = 2

SymbolOfEntry(p, entry, symbol) ==
    \* symbol is BASE/QUOTE of the entry: of baseAsset and quoteAsset for
    \* Binance, of the market code QUOTE-BASE for Bithumb
    LET v == Split(symbol, 47) IN
    /\ Len(v) = 2
    /\ IF p = "Binance"
       THEN v[1] = as_str(JIndex(entry, s_baseAsset)).value /\ v[2] = as_str(JIndex(entry, s_quoteAsset)).value
       ELSE as_str(JIndex(entry, s_market)).value = v[2] \o s_dash \o v[1]

\* C26: get_coin_list answered with a list of entries that each name their
\* assets returns a CoinList whose market is the provider's name and whose
\* coin_list has, at the place of every entry, the BASE/QUOTE symbol of it.
C26_CoinListInResponseOrder ==
    \A c \in Calls :
        (/\ c.op = "get_coin_list" /\ Answered(c)
         /\ as_array(IF c.provider = "Binance" THEN JIndex(Response(c), s_symbols) ELSE Response(c)).some
         /\ \A i \in DOMAIN CoinEntries(c) : EntryWellFormed(c.provider, CoinEntries(c)[i])) =>
            /\ Succeeded(c)
            /\ Normalized(c).market = c.provider
            /\ Len(Normalized(c).coin_list) = Len(CoinEntries(c))
            /\ \A i \in DOMAIN CoinEntries(c) :
                   SymbolOfEntry(c.provider, CoinEntries(c)[i], Normalized(c).coin_list[i])

C26_Witness ==
    /\ done.id # 0 /\ done.op = "get_coin_list" /\ done.provider = "Bithumb"
    /\ Succeeded(done)
    /\ Normalized(done).coin_list = <<<<66, 84, 67, 47, 75, 82, 87>>, <<69, 84, 72, 47, 75, 82, 87>>>>

-----------------------------------------------------------------------------
(* The signing specification: Binance get_signature is applied to instances *)
(* built with several secrets and to several parameter sets; sigLog keeps   *)
(* each call's secret, parameter set and result.                            *)

MaxSignCalls == 2     \* calls of get_signature in one behaviour

SignSecrets == { <<115, 107>>, <<115>>, <<97, 45, 109, 117, 99, 104, 45, 108, 111, 110, 103, 101, 114, 45, 115, 101, 99, 114, 101, 116, 45, 107, 101, 121>> }

TestParams ==
    \* test/binance.rs test_get_signature
    BTreeFrom(<< <<s_price, <<53, 48, 48, 48, 48>>>>, <<s_quantity, <<48, 46, 48, 49>>>>, <<s_side, <<66, 85, 89>>>>,
                 <<s_symbol, <<66, 84, 67, 85, 83, 68, 84>>>>, <<s_timestamp, <<49, 54, 50, 50, 53, 52, 55, 56, 48, 48>>>>, <<s_type, <<76, 73, 77, 73, 84>>>> >>)

SignParams == DirectParams \cup {BTreeNew, TestParams}

GetSignature(secret, params) ==
    /\ Len(sigLog) < MaxSignCalls
    /\ binance_new(<<97, 107>>, secret).ok
    /\ sigLog' = Append(sigLog, [secret |-> secret, params |-> params,
                                 result |-> binance_get_signature(binance_new(<<97, 107>>, secret).value, params)])
    /\ UNCHANGED <<canonVars, newVars, callVars, symLog>>

SignInit ==
    /\ mapA = BTreeNew /\ mapB = BTreeNew /\ canonOut = NoOutput
    /\ facade = [p \in Providers |-> NoFacade]
    /\ newResult = NoResult
    /\ lookup = NoResult
    /\ now = ClockStart /\ uuids = 0 /\ inflight = {} /\ done = NoCall /\ started = 0
    /\ nonceLog = <<>>
    /\ symLog = <<>> /\ sigLog = <<>>

SignNext == \E secret \in SignSecrets, params \in SignParams : GetSignature(secret, params)

SpecSign == SignInit /\ [][SignNext]_vars

-----------------------------------------------------------------------------
(* The facade specification: the four facades exist and a caller makes the  *)
(* operations of the Exchange trait one after the other, awaiting each call *)
(* before the next, with a full payload or one that holds the symbol only.  *)

ReqSymbolOnly == JObj(BTreeFrom(<< <<s_symbol, JStr(<<69, 84, 72, 47, 66, 84, 67>>)>> >>))     \* {"symbol": "ETH/BTC"}

FacadeReqs == {ReqFull, ReqSymbolOnly}

Signed(c) == c.op \in {"place_order", "cancel_order", "send_req_with_sign"}

FacadeReply(c) ==
    IF Signed(c)
    THEN \E reply \in Replies : TransportReply(c, reply)
    ELSE \E reply \in RepliesTo(c) : ReadReply(c, reply)

FacadeInit ==
    /\ mapA = BTreeNew /\ mapB = BTreeNew /\ canonOut = NoOutput
    /\ facade = [p \in Providers |->
                    CASE p = "Binance" -> binance_new(<<97, 107>>, <<115, 107>>).value
                      [] p = "Bithumb" -> bithumb_new(<<97, 107>>, <<115, 107>>).value
                      [] p = "Okx" -> okx_new(<<97, 107>>, <<115, 107>>, <<112, 112>>).value
                      [] p = "Upbit" -> upbit_new(<<97, 107>>, <<115, 107>>).value]
    /\ newResult = NoResult
    /\ lookup = NoResult
    /\ now = ClockStart /\ uuids = 0 /\ inflight = {} /\ done = NoCall /\ started = 0
    /\ nonceLog = <<>>
    /\ symLog = <<>> /\ sigLog = <<>>

FacadeNext ==
    \/ inflight = {} /\ \E req \in FacadeReqs : BinancePlaceOrder(req)
    \/ inflight = {} /\ \E req \in FacadeReqs : BinanceCancelOrder(req)
    \/ inflight = {} /\ \E req \in FacadeReqs : BinanceGetOrderBook(req)
    \/ inflight = {} /\ \E req \in FacadeReqs : BinanceGetCurrentPrice(req)
    \/ inflight = {} /\ BinanceGetCoinList
    \/ inflight = {} /\ \E req \in FacadeReqs : OkxPlaceOrder(req)
    \/ inflight = {} /\ \E req \in FacadeReqs : OkxCancelOrder(req)
    \/ inflight = {} /\ \E req \in FacadeReqs : OkxGetOrderBook(req)
    \/ inflight = {} /\ \E req \in FacadeReqs : OkxGetCurrentPrice(req)
    \/ inflight = {} /\ \E req \in FacadeReqs : UpbitPlaceOrder(req)
    \/ inflight = {} /\ \E req \in FacadeReqs : UpbitCancelOrder(req)
    \/ inflight = {} /\ \E req \in FacadeReqs : UpbitGetOrderBook(req)
    \/ inflight = {} /\ \E req \in FacadeReqs : BithumbPlaceOrder(req)
    \/ inflight = {} /\ \E req \in FacadeReqs : BithumbCancelOrder(req)
    \/ inflight = {} /\ \E req \in FacadeReqs : BithumbGetOrderBook(req)
    \/ inflight = {} /\ \E req \in FacadeReqs : BithumbGetCurrentPrice(req)
    \/ inflight = {} /\ BithumbGetCoinList
    \/ \E c \in inflight : FacadeReply(c)

SpecFacade == FacadeInit /\ [][FacadeNext]_vars

-----------------------------------------------------------------------------
(* Claims about the requests of the facade operations (SpecFacade) *)

Wire(c) == c.run.request.value

EndsWith(s, suffix) ==
    Len(suffix) <= Len(s) /\ SubSeq(s, Len(s) - Len(suffix) + 1, Len(s)) = suffix

Contains(s, sub) ==
    \E i \in 1..(Len(s) - Len(sub) + 1) : SubSeq(s, i, i + Len(sub) - 1) = sub

AuthHeaders ==
    {"x-mbx-apikey", "authorization", "ok-access-key", "ok-access-sign",
     "ok-access-timestamp", "ok-access-passphrase"}

\* C28: every request that place_order or cancel_order hands to the HTTP
\* sender carries the provider's whole auth artifact, made with the
\* instance's credentials over the parameter set which that request sends,
\* and every request of a read operation carries no credential header, no
\* signature parameter and no body.
C28_AuthOnSignedRequestsOnly ==
    \A c \in Calls :
        HandedToSender(c) =>
            LET self == facade[c.provider]
                sent == Wire(c).body.data
            IN
            CASE c.op \in {"place_order", "cancel_order"} /\ c.provider = "Binance" ->
                     /\ Header(c, "x-mbx-apikey") = Some(self.api_key)
                     /\ BTreeHas(sent, s_signature)
                     /\ sent = BTreeInsert(c.run.param.value, s_signature, BTreeGet(sent, s_signature))
                     /\ BTreeGet(sent, s_signature).hex.key = self.secret
                     /\ BTreeGet(sent, s_signature).hex.msg = ExpectedQueryString(c.run.param.value)
              [] c.op \in {"place_order", "cancel_order"} /\ c.provider \in {"Upbit", "Bithumb"} ->
                     /\ Header(c, "authorization").some
                     /\ Header(c, "authorization").value.scheme = "Bearer"
                     /\ LET token == Header(c, "authorization").value.token IN
                        /\ BTreeGet(token.claims, s_access_key) = self.api_key
                        /\ BTreeGet(token.claims, s_query_hash) = HexEncode(Sha512Digest(ExpectedQueryString(sent)))
                        /\ token.signature.key = self.secret
                        /\ token.signature.msg[2] = token.claims
              [] c.op \in {"place_order", "cancel_order"} /\ c.provider = "Okx" ->
                     /\ Header(c, "ok-access-key") = Some(self.api_key)
                     /\ Header(c, "ok-access-passphrase") = Some(self.passphrase)
                     /\ Header(c, "ok-access-timestamp").some
                     /\ Header(c, "ok-access-sign").some
                     /\ Header(c, "ok-access-sign").value.base64.key = self.secret
                     /\ EndsWith(Header(c, "ok-access-sign").value.base64.msg,
                                 s_qmark \o ExpectedQueryString(sent))
              [] c.op \in {"get_order_book", "get_current_price", "get_coin_list"} ->
                     /\ \A i \in DOMAIN Wire(c).headers : Wire(c).headers[i][1] \notin AuthHeaders
                     /\ ~Contains(Wire(c).url, s_signature)
                     /\ sent = BTreeNew
                     /\ ~c.run.auth.some
              [] OTHER -> TRUE

C28_Witness ==
    /\ started = 2
    /\ done.id = 1 /\ done.provider = "Okx" /\ done.op = "place_order" /\ done.reply.some
    /\ HandedToSender(done)
    /\ \E c \in inflight : c.provider = "Okx" /\ c.op = "get_order_book"

Field(req, name) == unwrap_or_default(as_str(JIndex(req, name)))

NativeSymbol(p, symbol) ==
    LET v == Split(symbol, 47) IN
    CASE p = "Binance" -> v[1] \o v[2]
      [] p = "Okx" -> v[1] \o s_dash \o v[2]
      [] OTHER -> v[2] \o s_dash \o v[1]

\* C29: place_order called with a payload whose symbol is BASE/QUOTE gives
\* send_req_with_sign, and the request sends, exactly the provider's
\* parameter names; side, order_type, price and amount are copied from the
\* payload, the empty string standing for an absent one, and the symbol is
\* BASEQUOTE (Binance), BASE-QUOTE (OKX) or QUOTE-BASE (Upbit, Bithumb).
C29_PlaceOrderParameters ==
    \A c \in Calls :
        (c.op = "place_order" /\ ~SymbolMalformed(c.req.value)) =>
            /\ c.run.param.some
            /\ HandedToSender(c)
            /\ LET P == c.run.param.value
                   req == c.req.value
                   symbol == NativeSymbol(c.provider, as_str(JIndex(req, s_symbol)).value)
               IN
               /\ \A k \in KeysOf(P) : BTreeHas(Wire(c).body.data, k) /\ BTreeGet(Wire(c).body.data, k) = BTreeGet(P, k)
               /\ CASE c.provider = "Binance" ->
                         /\ KeysOf(P) = {s_symbol, s_side, s_type, s_price, s_quantity, s_timestamp, s_newOrderRespType}
                         /\ Len(P) = 7
                         /\ BTreeGet(P, s_symbol) = symbol
                         /\ BTreeGet(P, s_side) = Field(req, s_side)
                         /\ BTreeGet(P, s_type) = Field(req, s_order_type)
                         /\ BTreeGet(P, s_price) = Field(req, s_price)
                         /\ BTreeGet(P, s_quantity) = Field(req, s_amount)
                         /\ BTreeGet(P, s_newOrderRespType) = s_RESULT
                         /\ \A i \in DOMAIN BTreeGet(P, s_timestamp) : IsDigit(BTreeGet(P, s_timestamp)[i])
                    [] c.provider = "Okx" ->
                         /\ KeysOf(P) = {s_instId, s_side, s_ordType, s_px, s_sz, s_tdMode}
                         /\ Len(P) = 6
                         /\ BTreeGet(P, s_instId) = symbol
                         /\ BTreeGet(P, s_side) = Field(req, s_side)
                         /\ BTreeGet(P, s_ordType) = Field(req, s_order_type)
                         /\ BTreeGet(P, s_px) = Field(req, s_price)
                         /\ BTreeGet(P, s_sz) = Field(req, s_amount)
                         /\ BTreeGet(P, s_tdMode) = s_cash
                    [] OTHER ->
                         /\ KeysOf(P) = {s_market, s_side, s_ord_type, s_price, s_volume}
                         /\ Len(P) = 5
                         /\ BTreeGet(P, s_market) = symbol
                         /\ BTreeGet(P, s_side) = Field(req, s_side)
                         /\ BTreeGet(P, s_ord_type) = Field(req, s_order_type)
                         /\ BTreeGet(P, s_price) = Field(req, s_price)
                         /\ BTreeGet(P, s_volume) = Field(req, s_amount)

C29_Witness ==
    /\ done.id # 0 /\ done.provider = "Okx" /\ done.op = "place_order"
    /\ done.req = Some(ReqSymbolOnly)
    /\ HandedToSender(done) /\ done.reply.some
    /\ BTreeGet(Wire(done).body.data, s_instId) = <<69, 84, 72, 45, 66, 84, 67>>
    /\ BTreeGet(Wire(done).body.data, s_side) = s_empty

-----------------------------------------------------------------------------
(* The order specification: place_order and cancel_order of the four        *)
(* facades are called in any order and interleaving, and the HTTP sender    *)
(* answers the calls in flight in any order.                                *)

OrderNext ==
    \/ \E req \in Reqs : BinancePlaceOrder(req)
    \/ \E req \in Reqs : BinanceCancelOrder(req)
    \/ \E req \in Reqs : OkxPlaceOrder(req)
    \/ \E req \in Reqs : OkxCancelOrder(req)
    \/ \E req \in Reqs : UpbitPlaceOrder(req)
    \/ \E req \in Reqs : UpbitCancelOrder(req)
    \/ \E req \in Reqs : BithumbPlaceOrder(req)
    \/ \E req \in Reqs : BithumbCancelOrder(req)
    \/ \E c \in inflight, reply \in Replies : TransportReply(c, reply)

SpecOrder == Init /\ [][OrderNext]_vars

====
